---------------------------- MODULE Spec2Model ----------------------------
(***************************************************************************)
(* Model of the work-item decomposition engine of task-genie:              *)
(* backend/agents/workItemAgent/services/bedrock_service.py.               *)
(*                                                                         *)
(* The specifications share the module's variables:                        *)
(*   Spec           one evaluate_work_item / generate_work_items call of   *)
(*                  BedrockService, from entry to return or raise;         *)
(*   SpecChildType  _get_expected_child_work_item_type on every input;     *)
(*   SpecJson       _safe_json_parse on every token text up to MaxLen;     *)
(*   SpecFormat     _detect_image_format on byte buffers up to MaxBuf;     *)
(*   SpecSize       _is_image_size_valid on sizes around the ceilings;     *)
(*   SpecFilters    _build_work_item_breakdown_filters on every input;     *)
(*   SpecPrompt     the base prompt of a generation, on every input;       *)
(*   SpecContent    _build_model_content, one image per step;              *)
(*   SpecPreview    the document previews of the three user prompts;       *)
(*   SpecRules      the system prompt of a generation, on every parent;    *)
(*   SpecResolvers  the resolvers of BedrockService and AzureService;      *)
(*   SpecChildren   the child loop of AzureService.get_child_work_items;   *)
(*   SpecCreate     one create_child_work_items call, request by request;  *)
(*   SpecFinalize   the finalize_response tool, on every outcome.          *)
(*                                                                         *)
(* Python values: None is the empty tuple, an Optional value x is <<x>>;   *)
(* a dict key that is absent is the marker NoKey.                          *)
(***************************************************************************)
EXTENDS Integers, Sequences, FiniteSets, TLC

VARIABLES
    pc,                 \* position of the service call
    op,                 \* "none" | "evaluate" | "generate"
    work_item,          \* the work item dict passed to the call
    params,             \* BedrockInferenceParams of a generate call
    retrieval,          \* how the knowledge-base retrieve ended
    knowledge_context,  \* list of BedrockKnowledgeDocument (by source id)
    user_prompt,        \* which user prompt was built, with how many documents
    inference_config,   \* inferenceConfig sent to converse
    converse_calls,     \* number of converse invocations of this call
    response,           \* the converse response
    outcome,            \* what the call returned or raised
    type_in,            \* input of _get_expected_child_work_item_type
    type_out,           \* its result
    json_in,            \* input of _safe_json_parse
    json_out,           \* its result
    fmt_in,             \* input of _detect_image_format: a byte buffer
    fmt_out,            \* its result
    size_in,            \* input of _is_image_size_valid: image size and ceiling
    size_out,           \* its result
    filter_in,          \* input of _build_work_item_breakdown_filters
    filter_out,         \* its result and the retrieval configuration built from it
    prompt_in,          \* inputs of the base-prompt resolution
    prompt_out,         \* the base prompt and what was asked of the config store
    cb_in,              \* input of _build_model_content: image references, max_images
    cb_pc,              \* position of _build_model_content
    cb_idx,             \* index of the image its loop handles next
    cb_content,         \* the content list it has built so far
    retrieval_results,  \* retrievalResults of the knowledge-base answer
    content,            \* the content blocks sent to converse
    params_arg,         \* the params argument of the generate_work_items tool
    tool_out,           \* what the evaluate_work_item / generate_work_items tool returned
    service_calls,      \* number of calls of the service made by the tool
    preview_in,         \* a prompt kind and the knowledge documents given to its builder
    preview_out,        \* the document previews of the prompt, and the documents afterwards
    rules_in,           \* inputs of _build_work_item_generation_system_prompt
    rules_out,          \* the system prompt: base prompt and output rules
    azure_type_in,      \* input of AzureService._get_expected_child_work_item_type
    azure_type_out,     \* its result and the type a child is created with
    children_in,        \* the batch response given to get_child_work_items
    children_out,       \* the children it returns
    cr_in,              \* inputs of the create_child_work_items tool
    cr_pc,              \* position of create_child_work_items
    cr_idx,             \* index of the child it creates next
    cr_created,         \* work items of the tracking system created by the call
    cr_links,           \* hierarchy-forward relations added to the parent
    cr_children,        \* the child dicts of the caller
    cr_out,             \* what the service returned or raised, and the tool's answer
    fin_in,             \* inputs of finalize_response
    fin_out             \* its return value and the writes to the results table

vars == <<pc, op, work_item, params, retrieval, knowledge_context, user_prompt,
          inference_config, converse_calls, response, outcome,
          retrieval_results, content,
          type_in, type_out, json_in, json_out, fmt_in, fmt_out, size_in, size_out,
          filter_in, filter_out, prompt_in, prompt_out, cb_in, cb_pc, cb_idx, cb_content,
          params_arg, tool_out, service_calls, preview_in, preview_out, rules_in, rules_out,
          azure_type_in, azure_type_out, children_in, children_out,
          cr_in, cr_pc, cr_idx, cr_created, cr_links, cr_children, cr_out, fin_in, fin_out>>

\* the variables of the pure functions checked on their own
typeVars == <<type_in, type_out>>

jsonVars == <<json_in, json_out>>

fmtVars == <<fmt_in, fmt_out>>

sizeVars == <<size_in, size_out>>

filterVars == <<filter_in, filter_out>>

promptVars == <<prompt_in, prompt_out>>

contentVars == <<cb_in, cb_pc, cb_idx, cb_content>>

pureVars == <<typeVars, jsonVars, fmtVars, sizeVars, filterVars, promptVars, contentVars>>

\* the variables of the functions of the tool layer checked on their own
previewVars == <<preview_in, preview_out>>

rulesVars == <<rules_in, rules_out>>

resolverVars == <<azure_type_in, azure_type_out>>

childrenVars == <<children_in, children_out>>

createVars == <<cr_in, cr_pc, cr_idx, cr_created, cr_links, cr_children, cr_out>>

finalizeVars == <<fin_in, fin_out>>

toolVars == <<previewVars, rulesVars, resolverVars, childrenVars, createVars, finalizeVars>>

pipelineVars == <<pc, op, work_item, params, retrieval, knowledge_context,
                  user_prompt, inference_config, converse_calls, response, outcome,
                  retrieval_results, content, params_arg, tool_out, service_calls>>

-----------------------------------------------------------------------------
(* Bounds of the model *)

\* longest token text given to _safe_json_parse in SpecJson
MaxLen == 5

\* most documents the knowledge base returns in one retrieve
MaxDocs == 2

\* longest byte buffer given to _detect_image_format in SpecFormat
MaxBuf == 12

\* how far below and above a ceiling the image sizes of SpecSize reach, in bytes
SizeSpan == 12

\* most image references of a work item in SpecContent
MaxImageRefs == 5

\* most children of one parent, fetched or to create
MaxChildren == 3

(* Program constants *)

MAX_OUTPUT_TOKENS == 10240

EVALUATION_MAX_TOKENS == 2048

\* max_image_size of the service, in MB
DEFAULT_MAX_IMAGE_SIZE == 5

\* max_images of the service
DEFAULT_MAX_IMAGES == 3

\* characters of a document kept in the evaluation user prompt
EVALUATION_PREVIEW_CHARS == 500

\* characters of a document kept in the generation user prompt
GENERATION_PREVIEW_CHARS == 500

\* characters of a document kept in the refinement user prompt
REFINEMENT_PREVIEW_CHARS == 300

-----------------------------------------------------------------------------
(* Python values *)

None == <<>>

Some(x) == <<x>>

NoKey == "<absent>"

\* dict.get(key, default) on a field that may be absent
Get(v, default) == IF v = NoKey THEN default ELSE v

\* truthiness of an Optional[str], Optional[int] or Optional[list]
TruthyStr(o) == o # None /\ o[1] # ""

TruthyInt(o) == o # None /\ o[1] # 0

TruthyList(o) == o # None /\ o[1] # <<>>

-----------------------------------------------------------------------------
(* Type-hierarchy resolver *)

NoChildType == "None"

\* faulty variant: the Scrum test of the Feature branch is dropped
ExpectedChildType_NoScrum(wi, plural) ==
    LET work_item_type == Get(wi.workItemType, "")
    IN  CASE work_item_type = "Epic" -> IF plural THEN "Features" ELSE "Feature"
          [] work_item_type = "Feature" -> IF plural THEN "User Stories" ELSE "User Story"
          [] work_item_type \in {"User Story", "Product Backlog Item"} ->
                IF plural THEN "Tasks" ELSE "Task"
          [] OTHER -> NoChildType

ExpectedChildType(wi, plural) ==
    LET work_item_type == Get(wi.workItemType, "")
        process_template == Get(wi.processTemplate, "")
    IN  CASE work_item_type = "Epic" -> IF plural THEN "Features" ELSE "Feature"
          [] work_item_type = "Feature" ->
                IF process_template = "Scrum"
                THEN IF plural THEN "Product Backlog Items" ELSE "Product Backlog Item"
                ELSE IF plural THEN "User Stories" ELSE "User Story"
          [] work_item_type \in {"User Story", "Product Backlog Item"} ->
                IF plural THEN "Tasks" ELSE "Task"
          [] OTHER -> NoChildType

\* the work item types and process templates given to the resolver
WorkItemTypes ==
    {"Epic", "Feature", "User Story", "Product Backlog Item", "Task", "Bug", NoKey}

ProcessTemplates == {"Scrum", "scrum", "Agile", "Basic", "CMMI", "Custom", NoKey}

TypeInputs ==
    [workItemType : WorkItemTypes, processTemplate : ProcessTemplates, plural : BOOLEAN]

TypeIdle == type_in = None /\ type_out = None

InitChildType ==
    /\ type_in \in {Some(i) : i \in TypeInputs}
    /\ type_out = None

\* one call of _get_expected_child_work_item_type
ResolveChildType ==
    /\ type_in # None
    /\ type_out = None
    /\ type_out' = Some(ExpectedChildType(type_in[1], type_in[1].plural))
    /\ UNCHANGED <<type_in, jsonVars, fmtVars, sizeVars, filterVars, promptVars, contentVars>>
    /\ UNCHANGED pipelineVars
    /\ UNCHANGED toolVars

-----------------------------------------------------------------------------
(* JSON values, token texts and _safe_json_parse *)

\* a JSON value: its kind and, for a list, its elements
JsonV(kind) == [kind |-> kind, items |-> <<>>]

ListV(items) == [kind |-> "list", items |-> items]

NullV == JsonV("null")

\* tokens of a model text: braces, commas, prose outside JSON, a "key": value
\* member with a scalar or list value, and a "key": prefix that an object follows
Tok(t) == [t |-> t, k |-> "", v |-> NullV]

LB == Tok("{")

RB == Tok("}")

Comma == Tok(",")

Prose == Tok("prose")

Member(k, v) == [t |-> "member", k |-> k, v |-> v]

Key(k) == [t |-> "key", k |-> k, v |-> NullV]

EmptyObj == [x \in {} |-> NullV]

\* str.find and str.rfind of one token: 0-based index, -1 when absent
Find(s, tok) ==
    IF \E i \in 1..Len(s) : s[i] = tok
    THEN (CHOOSE i \in 1..Len(s) : s[i] = tok /\ \A j \in 1..(i-1) : s[j] # tok) - 1
    ELSE -1

RFind(s, tok) ==
    IF \E i \in 1..Len(s) : s[i] = tok
    THEN (CHOOSE i \in 1..Len(s) : s[i] = tok /\ \A j \in (i+1)..Len(s) : s[j] # tok) - 1
    ELSE -1

ParseFail == [ok |-> FALSE, obj |-> EmptyObj, next |-> 0]

RECURSIVE ParseObject(_, _), ParseMembers(_, _, _)

\* json.loads reading the members of an object from position i, acc the members so far
ParseMembers(s, i, acc) ==
    IF i > Len(s) THEN ParseFail
    ELSE LET item ==
                CASE s[i].t = "member" -> [ok |-> TRUE, k |-> s[i].k, v |-> s[i].v, next |-> i + 1]
                  [] s[i].t = "key" ->
                        LET o == ParseObject(s, i + 1)
                        IN  [ok |-> o.ok, k |-> s[i].k, v |-> JsonV("object"), next |-> o.next]
                  [] OTHER -> [ok |-> FALSE, k |-> "", v |-> NullV, next |-> 0]
         IN  IF ~item.ok \/ item.next > Len(s) THEN ParseFail
             ELSE LET acc2 == (item.k :> item.v) @@ acc
                  IN  CASE s[item.next] = RB -> [ok |-> TRUE, obj |-> acc2, next |-> item.next + 1]
                        [] s[item.next] = Comma -> ParseMembers(s, item.next + 1, acc2)
                        [] OTHER -> ParseFail

\* json.loads reading one object that starts at position i
ParseObject(s, i) ==
    IF i > Len(s) \/ s[i] # LB THEN ParseFail
    ELSE IF i + 1 <= Len(s) /\ s[i + 1] = RB
         THEN [ok |-> TRUE, obj |-> EmptyObj, next |-> i + 2]
         ELSE ParseMembers(s, i + 1, EmptyObj)

\* json.loads: one value and nothing after it
JsonLoads(s) ==
    LET o == ParseObject(s, 1)
    IN  IF o.ok /\ o.next = Len(s) + 1
        THEN [ok |-> TRUE, obj |-> o.obj]
        ELSE [ok |-> FALSE, obj |-> EmptyObj]

JsonNone == [ok |-> FALSE, obj |-> EmptyObj]

\* faulty variant: the substring starts at the last '{' instead of the first
SafeJsonParse_LastOpen(input_str) ==
    LET start == RFind(input_str, LB)
        end == RFind(input_str, RB)
    IN  IF start = -1 \/ end = -1 \/ end <= start
        THEN JsonNone
        ELSE JsonLoads(SubSeq(input_str, start + 1, end + 1))

SafeJsonParse(input_str) ==
    LET start == Find(input_str, LB)
        end == RFind(input_str, RB)
    IN  IF start = -1 \/ end = -1 \/ end <= start
        THEN JsonNone
        ELSE JsonLoads(SubSeq(input_str, start + 1, end + 1))

\* the tokens of the texts of SpecJson
JsonAlphabet == {LB, RB, Comma, Prose, Member("a", JsonV("number")), Key("b")}

JsonTexts == UNION {[1..n -> JsonAlphabet] : n \in 0..MaxLen}

JsonIdle == json_in = <<>> /\ json_out = None

InitJson ==
    /\ json_in \in JsonTexts
    /\ json_out = None

\* one call of _safe_json_parse
SafeJsonParseCall ==
    /\ json_out = None
    /\ json_out' = Some(SafeJsonParse(json_in))
    /\ UNCHANGED <<json_in, typeVars, fmtVars, sizeVars, filterVars, promptVars, contentVars>>
    /\ UNCHANGED pipelineVars
    /\ UNCHANGED toolVars

-----------------------------------------------------------------------------
(* Image format detection *)

\* buffer[i] for a 0-based Python index i
ByteAt(buffer, i) == buffer[i + 1]

\* faulty variant: bytes 8..11 of a RIFF buffer are not examined
DetectImageFormat_RiffOnly(buffer) ==
    IF Len(buffer) >= 4
    THEN CASE ByteAt(buffer, 0) = 255 /\ ByteAt(buffer, 1) = 216 /\ ByteAt(buffer, 2) = 255 -> "jpeg"
           [] ByteAt(buffer, 0) = 137 /\ ByteAt(buffer, 1) = 80 /\ ByteAt(buffer, 2) = 78
                /\ ByteAt(buffer, 3) = 71 -> "png"
           [] ByteAt(buffer, 0) = 82 /\ ByteAt(buffer, 1) = 73 /\ ByteAt(buffer, 2) = 70
                /\ ByteAt(buffer, 3) = 70 -> "webp"
           [] ByteAt(buffer, 0) = 71 /\ ByteAt(buffer, 1) = 73 /\ ByteAt(buffer, 2) = 70
                /\ ByteAt(buffer, 3) = 56 -> "gif"
           [] OTHER -> "jpeg"
    ELSE "jpeg"

\* _detect_image_format: the signature tests in the order of the code, inside
\* the test len(buffer) >= 4; every other buffer is "jpeg"
DetectImageFormat(buffer) ==
    IF Len(buffer) >= 4
    THEN CASE ByteAt(buffer, 0) = 255 /\ ByteAt(buffer, 1) = 216 /\ ByteAt(buffer, 2) = 255 -> "jpeg"
           [] ByteAt(buffer, 0) = 137 /\ ByteAt(buffer, 1) = 80 /\ ByteAt(buffer, 2) = 78
                /\ ByteAt(buffer, 3) = 71 -> "png"
           [] ByteAt(buffer, 0) = 82 /\ ByteAt(buffer, 1) = 73 /\ ByteAt(buffer, 2) = 70
                /\ ByteAt(buffer, 3) = 70 /\ Len(buffer) >= 12
                /\ ByteAt(buffer, 8) = 87 /\ ByteAt(buffer, 9) = 69 /\ ByteAt(buffer, 10) = 66
                /\ ByteAt(buffer, 11) = 80 -> "webp"
           [] ByteAt(buffer, 0) = 71 /\ ByteAt(buffer, 1) = 73 /\ ByteAt(buffer, 2) = 70
                /\ ByteAt(buffer, 3) = 56 -> "gif"
           [] OTHER -> "jpeg"
    ELSE "jpeg"

\* the first four bytes of the buffers: each byte is one the signatures name at
\* that place, or 0
BufferHeads ==
    {<<a, b, c, d>> : a \in {255, 137, 82, 71, 0}, b \in {216, 80, 73, 0},
                      c \in {255, 78, 70, 0}, d \in {71, 70, 56, 0}}

\* bytes 8..11 of the buffers: "WEBP" with any of its bytes replaced by 0
BufferTails ==
    {<<a, b, c, d>> : a \in {87, 0}, b \in {69, 0}, c \in {66, 0}, d \in {80, 0}}

Zeros(n) == [i \in 1..n |-> 0]

\* the buffers: every prefix, up to MaxBuf bytes, of head, four bytes, tail, zeros
Buffers ==
    {SubSeq(h \o Zeros(4) \o t \o Zeros(MaxBuf), 1, n) :
        h \in BufferHeads, t \in BufferTails, n \in 0..MaxBuf}

FormatIdle == fmt_in = <<>> /\ fmt_out = None

InitFormat ==
    /\ fmt_in \in Buffers
    /\ fmt_out = None

\* one call of _detect_image_format
DetectImageFormatCall ==
    /\ fmt_out = None
    /\ fmt_out' = Some(DetectImageFormat(fmt_in))
    /\ UNCHANGED <<fmt_in, typeVars, jsonVars, sizeVars, filterVars, promptVars, contentVars>>
    /\ UNCHANGED pipelineVars
    /\ UNCHANGED toolVars

-----------------------------------------------------------------------------
(* Image size check *)

\* length of base64.b64encode of n bytes, '=' padding included (fetch_image)
Base64Len(n) == 4 * ((n + 2) \div 3)

\* _is_image_size_valid: len(base64_data) * 3 / 4 / (1024 * 1024) > max_image_size
\* means invalid; the float divisions are exact for these magnitudes, so the
\* test is the integer test len * 3 > max * 4 * 1024 * 1024
IsImageSizeValid(base64_len, max_image_size) ==
    ~(base64_len * 3 > max_image_size * 4 * (1024 * 1024))

\* the configured ceilings, in MB
ImageSizeCeilings == {1, 2, DEFAULT_MAX_IMAGE_SIZE}

\* the decoded sizes: a few bytes, and everything within SizeSpan of a ceiling
ImageSizes(max_image_size) ==
    (1..3) \cup {max_image_size * (1024 * 1024) + d : d \in (0 - SizeSpan)..SizeSpan}

SizeIdle == size_in = None /\ size_out = None

InitSize ==
    /\ size_in \in {Some([size |-> n, max_image_size |-> m]) :
                        n \in UNION {ImageSizes(c) : c \in ImageSizeCeilings},
                        m \in ImageSizeCeilings}
    /\ size_out = None

\* one call of _is_image_size_valid on the base64 text of a fetched image
IsImageSizeValidCall ==
    /\ size_in # None
    /\ size_out = None
    /\ size_out' = Some(IsImageSizeValid(Base64Len(size_in[1].size), size_in[1].max_image_size))
    /\ UNCHANGED <<size_in, typeVars, jsonVars, fmtVars, filterVars, promptVars, contentVars>>
    /\ UNCHANGED pipelineVars
    /\ UNCHANGED toolVars

-----------------------------------------------------------------------------
(* Multi-modal content builder *)

\* an image reference of a work item with what fetching it meets: AzureService()
\* raising, the HTTP request failing, an empty body, or a body of size bytes
\* that starts with the bytes head
ImageRef(fetch, size, head) == [fetch |-> fetch, size |-> size, head |-> head]

PngHead == <<137, 80, 78, 71>>

JpegHead == <<255, 216, 255, 224>>

ImageRefs ==
    { ImageRef("construct_error", 0, <<>>),
      ImageRef("http_error", 0, <<>>),
      ImageRef("ok", 0, <<>>),
      ImageRef("ok", 2048, PngHead),
      ImageRef("ok", (DEFAULT_MAX_IMAGE_SIZE + 1) * (1024 * 1024), JpegHead) }

\* AzureService.fetch_image: every failure is caught and answered with None;
\* otherwise the base64 text of the body, here its length and the body's bytes
FetchImage(image) ==
    IF image.fetch = "http_error"
    THEN None
    ELSE Some([base64_len |-> Base64Len(image.size), bytes |-> image.head])

TextBlock == [format |-> "text", image |-> 0]

\* the image block of the i-th reference
ImageBlock(format, i) == [format |-> format, image |-> i]

\* faulty variant: the construction failure of the tracking-system client is
\* not caught
ProcessImage_NoCatch(image, i, max_image_size) ==
    IF image.fetch = "construct_error"
    THEN [raised |-> TRUE, block |-> None]
    ELSE LET image_data == FetchImage(image)
         IN  IF image_data # None /\ image_data[1].base64_len # 0
                /\ IsImageSizeValid(image_data[1].base64_len, max_image_size)
             THEN [raised |-> FALSE,
                   block |-> Some(ImageBlock(DetectImageFormat(image_data[1].bytes), i))]
             ELSE [raised |-> FALSE, block |-> None]

\* the body of the loop of _build_model_content for the i-th reference: the
\* try block with its except Exception, which only logs
ProcessImage(image, i, max_image_size) ==
    IF image.fetch = "construct_error"
    THEN [raised |-> FALSE, block |-> None]
    ELSE LET image_data == FetchImage(image)
         IN  IF image_data # None /\ image_data[1].base64_len # 0
                /\ IsImageSizeValid(image_data[1].base64_len, max_image_size)
             THEN [raised |-> FALSE,
                   block |-> Some(ImageBlock(DetectImageFormat(image_data[1].bytes), i))]
             ELSE [raised |-> FALSE, block |-> None]

\* faulty variant: every image is processed
ImagesToProcess_All(images, max_images) == images

\* images[: self.max_images], for max_images >= 0
ImagesToProcess(images, max_images) ==
    SubSeq(images, 1, IF Len(images) < max_images THEN Len(images) ELSE max_images)

\* the configured values of max_images
MaxImagesValues == {0, 1, DEFAULT_MAX_IMAGES}

ContentIdle ==
    /\ cb_in = [images |-> <<>>, max_images |-> 0]
    /\ cb_pc = "idle"
    /\ cb_idx = 0
    /\ cb_content = <<>>

InitContent ==
    /\ cb_in \in [images : UNION {[1..n -> ImageRefs] : n \in 0..MaxImageRefs},
                  max_images : MaxImagesValues]
    /\ cb_pc = "idle"
    /\ cb_idx = 0
    /\ cb_content = <<>>

\* _build_model_content up to its loop: the text block, and the early return of
\* a work item without images
StartBuildContent ==
    /\ cb_pc = "idle"
    /\ cb_content' = <<TextBlock>>
    /\ IF cb_in.images = <<>> \/ ImagesToProcess(cb_in.images, cb_in.max_images) = <<>>
       THEN cb_pc' = "done" /\ cb_idx' = cb_idx
       ELSE cb_pc' = "loop" /\ cb_idx' = 1
    /\ UNCHANGED <<cb_in, typeVars, jsonVars, fmtVars, sizeVars, filterVars, promptVars>>
    /\ UNCHANGED pipelineVars
    /\ UNCHANGED toolVars

\* one round of the loop, and the return after its last round
ProcessNextImage ==
    /\ cb_pc = "loop"
    /\ LET todo == ImagesToProcess(cb_in.images, cb_in.max_images)
           got == ProcessImage(cb_in.images[cb_idx], cb_idx, DEFAULT_MAX_IMAGE_SIZE)
       IN  IF got.raised
           THEN cb_pc' = "raised" /\ cb_idx' = cb_idx /\ cb_content' = cb_content
           ELSE /\ cb_content' = IF got.block = None THEN cb_content
                                 ELSE Append(cb_content, got.block[1])
                /\ cb_idx' = cb_idx + 1
                /\ cb_pc' = IF cb_idx >= Len(todo) THEN "done" ELSE "loop"
    /\ UNCHANGED <<cb_in, typeVars, jsonVars, fmtVars, sizeVars, filterVars, promptVars>>
    /\ UNCHANGED pipelineVars
    /\ UNCHANGED toolVars

\* _build_model_content as one step of the service call: the loop run to its end
RECURSIVE AppendImages(_, _, _, _)
AppendImages(content_so_far, todo, i, max_image_size) ==
    IF i > Len(todo) THEN [raised |-> FALSE, content |-> content_so_far]
    ELSE LET got == ProcessImage(todo[i], i, max_image_size)
         IN  IF got.raised THEN [raised |-> TRUE, content |-> content_so_far]
             ELSE AppendImages(IF got.block = None THEN content_so_far
                               ELSE Append(content_so_far, got.block[1]),
                               todo, i + 1, max_image_size)

BuildModelContent(images, max_images, max_image_size) ==
    AppendImages(<<TextBlock>>, ImagesToProcess(images, max_images), 1, max_image_size)

-----------------------------------------------------------------------------
(* Knowledge-base filters of a breakdown query *)

\* truthiness of work_item.get(key) for a field that is a string when present
FieldGiven(v) == v # NoKey /\ v # ""

\* {"equals": {"key": key, "value": value}}
Equals(key, value) == [key |-> key, value |-> value]

\* the dict a filter builder returns: {} or {"filter": ...}, the filter being
\* one bare condition ("equals") or {"andAll": conditions}
NoFilters == [has_filter |-> FALSE, op |-> "", conditions |-> <<>>]

Filters(operator, conditions) == [has_filter |-> TRUE, op |-> operator, conditions |-> conditions]

FilterConditions(wi) ==
    (IF FieldGiven(wi.workItemType) THEN <<Equals("workItemType", wi.workItemType)>> ELSE <<>>)
    \o (IF FieldGiven(wi.areaPath) THEN <<Equals("areaPath", wi.areaPath)>> ELSE <<>>)
    \o (IF FieldGiven(wi.businessUnit) THEN <<Equals("businessUnit", wi.businessUnit)>> ELSE <<>>)
    \o (IF FieldGiven(wi.system) THEN <<Equals("system", wi.system)>> ELSE <<>>)

\* faulty variant: a single condition is wrapped in andAll as well
BuildWorkItemBreakdownFilters_AlwaysAndAll(wi) ==
    LET filter_conditions == FilterConditions(wi)
    IN  IF Len(filter_conditions) >= 1 THEN Filters("andAll", filter_conditions)
        ELSE NoFilters

\* _build_work_item_breakdown_filters
BuildWorkItemBreakdownFilters(wi) ==
    LET filter_conditions == FilterConditions(wi)
    IN  IF Len(filter_conditions) >= 2 THEN Filters("andAll", filter_conditions)
        ELSE IF Len(filter_conditions) = 1 THEN Filters("equals", filter_conditions)
        ELSE NoFilters

\* the vectorSearchConfiguration of retrieve_knowledge_context: numberOfResults,
\* and the filter key only after update(filters) of a non-empty filters dict
VectorSearchConfiguration(filters) ==
    IF filters.has_filter
    THEN [keys |-> {"numberOfResults", "filter"}, op |-> filters.op,
          conditions |-> filters.conditions]
    ELSE [keys |-> {"numberOfResults"}, op |-> "", conditions |-> <<>>]

FilterFieldValues(value) == {NoKey, "", value}

FilterInputs ==
    [workItemType : FilterFieldValues("User Story"),
     areaPath : FilterFieldValues("Contoso\\Web"),
     businessUnit : FilterFieldValues("Retail"),
     system : FilterFieldValues("Checkout")]

FilterIdle == filter_in = None /\ filter_out = None

InitFilters ==
    /\ filter_in \in {Some(wi) : wi \in FilterInputs}
    /\ filter_out = None

\* the filters of a breakdown query and the retrieval configuration made of them
BuildBreakdownFiltersCall ==
    /\ filter_in # None
    /\ filter_out = None
    /\ LET filters == BuildWorkItemBreakdownFilters(filter_in[1])
       IN  filter_out' = Some([filters |-> filters,
                               config |-> VectorSearchConfiguration(filters)])
    /\ UNCHANGED <<filter_in, typeVars, jsonVars, fmtVars, sizeVars, promptVars, contentVars>>
    /\ UNCHANGED pipelineVars
    /\ UNCHANGED toolVars

-----------------------------------------------------------------------------
(* Prompt resolution *)

\* the default prompts of _build_work_item_generation_system_prompt, by name
DefaultPrompt(wi) ==
    LET work_item_type == Get(wi.workItemType, "")
        process_template == Get(wi.processTemplate, "")
    IN  CASE work_item_type = "Product Backlog Item" -> "default: Product Backlog Item into Tasks"
          [] work_item_type = "User Story" -> "default: User Story into Tasks"
          [] work_item_type = "Feature" ->
                IF process_template = "Scrum"
                THEN "default: Feature into Product Backlog Items"
                ELSE "default: Feature into User Stories"
          [] work_item_type = "Epic" -> "default: Epic into Features"
          [] OTHER -> ""

\* f"{workItemType}#{areaPath}#{businessUnit}#{system}", as its four parts
AdoKey(wi) ==
    <<Get(wi.workItemType, ""), Get(wi.areaPath, ""), Get(wi.businessUnit, ""),
      Get(wi.system, "")>>

\* the one key the config table of the model may hold an item under
StoredKey == <<"Feature", "Contoso\\Web", "Retail", "Checkout">>

\* what the config table is like at the time of the call: unreachable, empty,
\* or holding under StoredKey an item without prompt attribute, with an empty
\* prompt or with a prompt
ConfigStores == {"unreachable", "empty", "item_without_prompt", "item_empty_prompt", "item_prompt"}

StoredPrompt == "stored prompt"

\* dynamodb get_item: raises, or answers with or without "Item"; the item as
\* its prompt attribute config_item.get("prompt", {}).get("S")
GetItem(store, ado_key) ==
    IF store = "unreachable" THEN [raised |-> TRUE, has_item |-> FALSE, prompt |-> None]
    ELSE IF store = "empty" \/ ado_key # StoredKey
    THEN [raised |-> FALSE, has_item |-> FALSE, prompt |-> None]
    ELSE [raised |-> FALSE, has_item |-> TRUE,
          prompt |-> CASE store = "item_without_prompt" -> None
                       [] store = "item_empty_prompt" -> Some("")
                       [] OTHER -> Some(StoredPrompt)]

NotConsulted == [consulted |-> FALSE, ado_key |-> <<>>, prompt |-> None]

\* _get_custom_prompt: the prompt it returns and whether get_item was called
GetCustomPrompt(env, wi) ==
    IF env.config_table_name = "" THEN NotConsulted
    ELSE LET ado_key == AdoKey(wi)
             answer == GetItem(env.store, ado_key)
         IN  [consulted |-> TRUE, ado_key |-> ado_key,
              prompt |-> IF answer.raised THEN None
                         ELSE IF answer.has_item THEN answer.prompt
                         ELSE None]

\* faulty variant: the config table is asked first
ResolvePrompt_DatabaseFirst(env, wi, parameter_prompt) ==
    LET database == GetCustomPrompt(env, wi)
    IN  IF TruthyStr(database.prompt)
        THEN [prompt |-> database.prompt, lookup |-> database]
        ELSE IF TruthyStr(parameter_prompt)
        THEN [prompt |-> parameter_prompt, lookup |-> database]
        ELSE [prompt |-> None, lookup |-> database]

\* _resolve_prompt
ResolvePrompt(env, wi, parameter_prompt) ==
    IF TruthyStr(parameter_prompt)
    THEN [prompt |-> parameter_prompt, lookup |-> NotConsulted]
    ELSE LET database == GetCustomPrompt(env, wi)
         IN  IF TruthyStr(database.prompt)
             THEN [prompt |-> database.prompt, lookup |-> database]
             ELSE [prompt |-> None, lookup |-> database]

\* base_prompt = (await self._resolve_prompt(work_item, params.prompt)) or default_prompt
BasePrompt(env, wi, parameter_prompt) ==
    LET resolved == ResolvePrompt(env, wi, parameter_prompt)
    IN  [base_prompt |-> IF TruthyStr(resolved.prompt) THEN resolved.prompt[1]
                         ELSE DefaultPrompt(wi),
         lookup |-> resolved.lookup]

PromptWorkItems ==
    [workItemType : {"Epic", "Feature", "Task"},
     processTemplate : {"Scrum", NoKey},
     areaPath : {"Contoso\\Web", NoKey},
     businessUnit : {"Retail"},
     system : {"Checkout", NoKey}]

PromptEnvs == [config_table_name : {"", "config-table"}, store : ConfigStores]

ParameterPrompts == {None, Some(""), Some("call-time prompt")}

PromptIdle == prompt_in = None /\ prompt_out = None

InitPrompt ==
    /\ prompt_in \in {Some([env |-> e, work_item |-> wi, parameter_prompt |-> p]) :
                          e \in PromptEnvs, wi \in PromptWorkItems, p \in ParameterPrompts}
    /\ prompt_out = None

\* the base prompt of one generation call
ResolvePromptCall ==
    /\ prompt_in # None
    /\ prompt_out = None
    /\ prompt_out' = Some(BasePrompt(prompt_in[1].env, prompt_in[1].work_item,
                                     prompt_in[1].parameter_prompt))
    /\ UNCHANGED <<prompt_in, typeVars, jsonVars, fmtVars, sizeVars, filterVars, contentVars>>
    /\ UNCHANGED pipelineVars
    /\ UNCHANGED toolVars

-----------------------------------------------------------------------------
(* The service call: inputs *)

\* a list-valued key of a work item ("images", "tags") that is absent
AbsentList == JsonV("absent")

\* work_item.get(key, []) of such a key
GetList(v) == IF v = AbsentList THEN <<>> ELSE v.items

\* the work items given to evaluate_work_item and generate_work_items
WorkItems ==
    { [workItemType |-> "Feature", processTemplate |-> "Scrum", images |-> AbsentList,
       tags |-> AbsentList],
      [workItemType |-> "User Story", processTemplate |-> "Agile", images |-> ListV(<<>>),
       tags |-> ListV(<<>>)],
      [workItemType |-> "Feature", processTemplate |-> "Agile",
       images |-> ListV(<<ImageRef("ok", 2048, PngHead), ImageRef("http_error", 0, <<>>),
                          ImageRef("ok", 2048, JpegHead), ImageRef("ok", 2048, PngHead)>>),
       tags |-> ListV(<<"Reviewed">>)],
      [workItemType |-> NoKey, processTemplate |-> NoKey, images |-> AbsentList,
       tags |-> AbsentList],
      [workItemType |-> "User Story", processTemplate |-> "Agile", images |-> AbsentList,
       tags |-> ListV(<<"Reviewed", "Task Genie">>)],
      [workItemType |-> NoKey, processTemplate |-> NoKey, images |-> AbsentList,
       tags |-> ListV(<<"Task Genie">>)] }

NoWorkItem ==
    [workItemType |-> NoKey, processTemplate |-> NoKey, images |-> AbsentList, tags |-> AbsentList]

\* the params argument of the generate_work_items tool: absent, or a dict, given
\* by its keys
ParamsArgs ==
    { None, Some({}), Some({"temperature"}), Some({"top_p"}), Some({"max_tokens"}),
      Some({"prompt"}), Some({"refinement_instructions", "generated_work_items"}) }

\* temperature and top_p are floats, written as their literals
TruthyFloat(o) == o # None /\ o[1] # "0.0"

\* BedrockInferenceParams: the fields that steer the call; the sampling fields
\* vary with the other fields absent
InferenceParams ==
    [ refinement_instructions : {None, Some(""), Some("drop the second item")},
      generated_work_items : {None, Some(<<>>), Some(<<"full1">>)},
      max_tokens : {None, Some(4096), Some(20000)},
      temperature : {None},
      top_p : {None} ]
    \cup
    [ refinement_instructions : {None},
      generated_work_items : {None},
      max_tokens : {None},
      temperature : {None, Some("0.0"), Some("0.7")},
      top_p : {None, Some("0.0"), Some("0.9")} ]

NoParams ==
    [refinement_instructions |-> None, generated_work_items |-> None, max_tokens |-> None,
     temperature |-> None, top_p |-> None]

\* location.s3Location.uri of a retrieval result; NoKey for a result without it
DocSources == {"s3://kb/a.md", NoKey}

\* how bedrock_agent_client.retrieve and the code around it can end
RetrievalOutcomes ==
    [kind : {"config_error", "client_error", "process_error"}, results : {<<>>}]
    \cup [kind : {"ok"}, results : UNION {[1..n -> DocSources] : n \in 0..MaxDocs}]

\* elements of a generated workItems array: objects with title and description,
\* an object without title, and a bare string
ItemHasTitle(item) == item \in {"full1", "full2"}

ItemHasDescription(item) == item \in {"full1", "full2", "notitle"}

PassTrue == Member("pass", JsonV("true"))

PassFalse == Member("pass", JsonV("false"))

CommentStr == Member("comment", JsonV("string"))

CommentEmpty == Member("comment", JsonV("emptystring"))

WorkItemsM(v) == Member("workItems", v)

\* the texts the model answers with
ResponseTexts ==
    { <<Prose, LB, PassTrue, RB, Prose>>,
      <<LB, PassFalse, Comma, CommentStr, RB>>,
      <<LB, PassFalse, Comma, CommentEmpty, RB>>,
      <<LB, PassFalse, RB>>,
      <<LB, CommentStr, RB>>,
      <<LB, RB>>,
      <<Prose>>,
      <<LB, WorkItemsM(ListV(<<"full1", "full2">>))>>,
      <<Prose, LB, WorkItemsM(ListV(<<"full1", "full2">>)), RB>>,
      <<LB, WorkItemsM(ListV(<<"full1", "notitle">>)), RB>>,
      <<LB, WorkItemsM(ListV(<<>>)), RB>>,
      <<LB, WorkItemsM(ListV(<<"full1", "full1">>)), RB>>,
      <<LB, PassTrue, Comma, Member("sources", ListV(<<"s3://kb/cited.md">>)), RB>>,
      <<LB, WorkItemsM(JsonV("string")), RB>>,
      <<LB, WorkItemsM(JsonV("number")), RB>>,
      <<LB, Key("workItems"), LB, RB, RB>> }

\* usage.outputTokens of a response; 0 stands for a response without usage
OutputTokens == {0, EVALUATION_MAX_TOKENS, 4096, MAX_OUTPUT_TOKENS, 20000}

\* output.message.content of a response: absent, [], not a list, a first item
\* without text, or a first item with text
ContentShapes == {"missing", "empty", "notlist", "notext"}

ConverseError == [error |-> TRUE, content |-> "missing", text |-> <<>>, outputTokens |-> 0]

Responses ==
    [error : {FALSE}, content : {"text"}, text : ResponseTexts, outputTokens : OutputTokens]
    \cup [error : {FALSE}, content : ContentShapes, text : {<<>>}, outputTokens : OutputTokens]
    \cup {ConverseError}

NoResponse == [error |-> FALSE, content |-> "none", text |-> <<>>, outputTokens |-> 0]

-----------------------------------------------------------------------------
(* The service call: results *)

NoOutcome ==
    [kind |-> "none", message |-> <<>>, cause |-> "", passed |-> FALSE,
     comment |-> NullV, sources |-> <<>>, work_items |-> NullV, documents |-> <<>>]

\* an exception reaching the caller: the parts of its message, and the message of
\* the failure that started it
Raised(message, cause) ==
    [NoOutcome EXCEPT !.kind = "raised", !.message = message, !.cause = cause]

EvaluationResponse(passed, comment, sources) ==
    [NoOutcome EXCEPT !.kind = "returned", !.passed = passed, !.comment = comment,
                      !.sources = sources]

GenerationResponse(work_items, documents) ==
    [NoOutcome EXCEPT !.kind = "returned", !.work_items = work_items,
                      !.documents = documents]

MsgKeyError == "KeyError: 'workItemType'"

MsgAttributeError == "AttributeError: 'dict' object has no attribute 'refinement_instructions'"

MsgConverse == "converse failed"

MsgStructure == "Invalid message content structure in model response"

MsgNoText == "No text content found in model response"

MsgTokenLimit == "Model response exceeds maximum token limit"

MsgInvalidJson == "Invalid JSON response from model"

MsgNoLen == "TypeError: object has no len()"

MsgLenArgs == "TypeError: len() takes exactly one argument (2 given)"

MsgInvocationFailed == "Bedrock model invocation failed: "

MsgRetrieval == "retrieve failed"

-----------------------------------------------------------------------------
(* Knowledge retrieval *)

\* f"Document {idx + 1}" for the result at 1-based position i
DocumentLabels == <<"Document 1", "Document 2", "Document 3", "Document 4">>

\* _process_knowledge_results: one document per result, in the results' order;
\* a document is modelled by its source
ProcessKnowledgeResults(results) ==
    [i \in 1..Len(results) |-> Get(results[i], DocumentLabels[i])]

\* faulty variant: a retrieval failure is not caught
RetrieveKnowledgeContext_NoCatch(r) ==
    IF r.kind = "ok"
    THEN [raised |-> FALSE, documents |-> ProcessKnowledgeResults(r.results)]
    ELSE [raised |-> TRUE, documents |-> <<>>]

\* retrieve_knowledge_context: the whole body is inside try / except Exception
RetrieveKnowledgeContext(r) ==
    IF r.kind = "ok"
    THEN [raised |-> FALSE, documents |-> ProcessKnowledgeResults(r.results)]
    ELSE [raised |-> FALSE, documents |-> <<>>]

-----------------------------------------------------------------------------
(* Prompt selection and inference configuration *)

\* faulty variant: refinement_instructions alone selects refinement
IsRefinement_InstructionsOnly(p) == TruthyStr(p.refinement_instructions)

\* the test of _invoke_model_for_work_item_generation for a refinement request
IsRefinement(p) ==
    TruthyStr(p.refinement_instructions) /\ TruthyList(p.generated_work_items)

\* inferenceConfig.maxTokens of a generation: params.max_tokens or MAX_OUTPUT_TOKENS
GenerationMaxTokens(p) ==
    IF TruthyInt(p.max_tokens) THEN p.max_tokens[1] ELSE MAX_OUTPUT_TOKENS

\* the temperature sent when the caller's sampling fields select nothing, and
\* the one of every evaluation
DefaultTemperature == "0.5"

\* inferenceConfig of an evaluation
EvaluationInferenceConfig ==
    [maxTokens |-> EVALUATION_MAX_TOKENS, temperature |-> Some(DefaultTemperature),
     topP |-> None]

\* inferenceConfig of a generation: if params.temperature / elif params.top_p /
\* else temperature 0.5, the tests being tests of truthiness
GenerationInferenceConfig(p) ==
    [maxTokens |-> GenerationMaxTokens(p),
     temperature |-> IF TruthyFloat(p.temperature) THEN p.temperature
                     ELSE IF TruthyFloat(p.top_p) THEN None
                     ELSE Some(DefaultTemperature),
     topP |-> IF ~TruthyFloat(p.temperature) /\ TruthyFloat(p.top_p) THEN p.top_p
              ELSE None]

-----------------------------------------------------------------------------
(* Response parsers *)

ParseRaise(cause) == [raised |-> TRUE, cause |-> cause, result |-> NoOutcome]

ParseReturn(result) == [raised |-> FALSE, cause |-> "", result |-> result]

\* Python's len() is defined for str, dict and list values
HasLen(v) == v.kind \in {"string", "emptystring", "object", "list"}

\* faulty variant: the sources the model names are returned when it names any
ParseWorkItemEvaluation_ModelSources(resp, kc) ==
    IF resp.content \in {"missing", "empty", "notlist"} THEN ParseRaise(MsgStructure)
    ELSE IF resp.content = "notext" THEN ParseRaise(MsgNoText)
    ELSE LET parsed_response == SafeJsonParse(resp.text)
         IN  IF ~parsed_response.ok \/ DOMAIN parsed_response.obj = {}
             THEN ParseRaise(MsgInvalidJson)
             ELSE ParseReturn(EvaluationResponse(
                     IF "pass" \in DOMAIN parsed_response.obj
                     THEN parsed_response.obj["pass"].kind = "true"
                     ELSE FALSE,
                     IF "comment" \in DOMAIN parsed_response.obj
                     THEN parsed_response.obj["comment"]
                     ELSE NullV,
                     IF "sources" \in DOMAIN parsed_response.obj
                     THEN parsed_response.obj["sources"].items
                     ELSE [i \in 1..Len(kc) |-> kc[i]]))

\* _parse_work_item_evaluation
ParseWorkItemEvaluation(resp, kc) ==
    IF resp.content \in {"missing", "empty", "notlist"} THEN ParseRaise(MsgStructure)
    ELSE IF resp.content = "notext" THEN ParseRaise(MsgNoText)
    ELSE LET parsed_response == SafeJsonParse(resp.text)
         IN  IF ~parsed_response.ok \/ DOMAIN parsed_response.obj = {}
             THEN ParseRaise(MsgInvalidJson)
             ELSE ParseReturn(EvaluationResponse(
                     IF "pass" \in DOMAIN parsed_response.obj
                     THEN parsed_response.obj["pass"].kind = "true"
                     ELSE FALSE,
                     IF "comment" \in DOMAIN parsed_response.obj
                     THEN parsed_response.obj["comment"]
                     ELSE NullV,
                     [i \in 1..Len(kc) |-> kc[i]]))

\* faulty variant: elements without a title are left out of the returned list
ParseWorkItems_TitledOnly(resp) ==
    IF resp.content \in {"missing", "empty", "notlist"} THEN ParseRaise(MsgStructure)
    ELSE IF resp.content = "notext" THEN ParseRaise(MsgNoText)
    ELSE IF resp.outputTokens # 0 /\ resp.outputTokens >= MAX_OUTPUT_TOKENS
    THEN ParseRaise(MsgTokenLimit)
    ELSE LET parsed_response == SafeJsonParse(resp.text)
         IN  IF ~parsed_response.ok \/ DOMAIN parsed_response.obj = {}
                \/ "workItems" \notin DOMAIN parsed_response.obj
             THEN ParseRaise(MsgInvalidJson)
             ELSE IF ~HasLen(parsed_response.obj["workItems"])
             THEN ParseRaise(MsgNoLen)
             ELSE ParseReturn(GenerationResponse(
                     [parsed_response.obj["workItems"] EXCEPT
                         !.items = SelectSeq(@, ItemHasTitle)], <<>>))

\* _parse_work_items
ParseWorkItems(resp) ==
    IF resp.content \in {"missing", "empty", "notlist"} THEN ParseRaise(MsgStructure)
    ELSE IF resp.content = "notext" THEN ParseRaise(MsgNoText)
    ELSE IF resp.outputTokens # 0 /\ resp.outputTokens >= MAX_OUTPUT_TOKENS
    THEN ParseRaise(MsgTokenLimit)
    ELSE LET parsed_response == SafeJsonParse(resp.text)
         IN  IF ~parsed_response.ok \/ DOMAIN parsed_response.obj = {}
                \/ "workItems" \notin DOMAIN parsed_response.obj
             THEN ParseRaise(MsgInvalidJson)
             ELSE IF ~HasLen(parsed_response.obj["workItems"])
             THEN ParseRaise(MsgNoLen)
             ELSE ParseReturn(GenerationResponse(parsed_response.obj["workItems"], <<>>))

\* faulty variant: a failure is answered with a failed evaluation
InvokeModelForEvaluation_Swallow(resp, kc) ==
    LET r == IF resp.error THEN ParseRaise(MsgConverse) ELSE ParseWorkItemEvaluation(resp, kc)
    IN  IF r.raised
        THEN EvaluationResponse(FALSE, NullV, <<>>)
        ELSE r.result

\* _invoke_model_for_work_item_evaluation from the converse call on: every
\* exception of the try block is wrapped into "Bedrock model invocation failed: ..."
InvokeModelForEvaluation(resp, kc) ==
    LET r == IF resp.error THEN ParseRaise(MsgConverse) ELSE ParseWorkItemEvaluation(resp, kc)
    IN  IF r.raised
        THEN Raised(<<MsgInvocationFailed, r.cause>>, r.cause)
        ELSE r.result

\* _invoke_model_for_work_item_generation from the converse call on: the except
\* block evaluates len(messages, {}) for its log record, which raises TypeError
\* before the wrapping raise is reached
InvokeModelForGeneration(resp) ==
    LET r == IF resp.error THEN ParseRaise(MsgConverse) ELSE ParseWorkItems(resp)
    IN  IF r.raised
        THEN Raised(<<MsgLenArgs>>, r.cause)
        ELSE r.result

-----------------------------------------------------------------------------
(* Document previews of the user prompts *)

\* the three user prompt builders
PromptKinds == {"evaluation", "generation", "refinement"}

\* numbers of characters of a document's content, around the cut lengths
ContentLengths == {0, 299, 300, 301, 499, 500, 501, 800}

\* knowledge_context: a document is modelled by the length of its content
SeqsOf(S, n) == UNION {[1..k -> S] : k \in 0..n}

\* the slice length of doc.content[:n] in the builder of a prompt kind
PreviewChars(kind) ==
    CASE kind = "evaluation" -> EVALUATION_PREVIEW_CHARS
      [] kind = "generation" -> GENERATION_PREVIEW_CHARS
      [] kind = "refinement" -> REFINEMENT_PREVIEW_CHARS

\* doc.content[:n] of the document at index i: its first min(len, n) characters
ContentSlice(i, length, n) ==
    [doc |-> i, chars |-> IF length < n THEN length ELSE n]

\* knowledge_section of a user prompt: one line "- <slice>..." per document, in
\* the order of knowledge_context; none for an empty knowledge_context
KnowledgeSection(kind, documents) ==
    [i \in 1..Len(documents) |-> ContentSlice(i, documents[i], PreviewChars(kind))]

InitPreview ==
    /\ preview_in \in {Some([kind |-> k, documents |-> d]) :
                          k \in PromptKinds, d \in SeqsOf(ContentLengths, MaxDocs)}
    /\ preview_out = None

\* one user prompt is built; the slices are new strings and knowledge_context
\* is left as it was
BuildUserPrompt ==
    /\ preview_in # None
    /\ preview_out = None
    /\ preview_out' = Some([previews |-> KnowledgeSection(preview_in[1].kind,
                                                          preview_in[1].documents),
                            documents |-> preview_in[1].documents])
    /\ UNCHANGED preview_in
    /\ UNCHANGED <<pipelineVars, pureVars, rulesVars, resolverVars, childrenVars,
                   createVars, finalizeVars>>

-----------------------------------------------------------------------------
(* The system prompt of a generation *)

\* a system prompt without "**Output Rules**": the base prompt alone
NoOutputRules == [given |-> FALSE, objects |-> "", keys |-> {}]

\* "workItems": array of <objects> objects, each with the keys <keys>
OutputRulesOf(objects, keys) == [given |-> TRUE, objects |-> objects, keys |-> keys]

\* faulty variant: a Feature always asks for user story objects
OutputRules_NoScrum(wi) ==
    LET work_item_type == Get(wi.workItemType, "")
    IN  IF work_item_type \in {"Product Backlog Item", "User Story"}
        THEN OutputRulesOf("task", {"title", "description"})
        ELSE IF work_item_type = "Feature"
        THEN OutputRulesOf("user story", {"title", "description", "acceptanceCriteria"})
        ELSE IF work_item_type = "Epic"
        THEN OutputRulesOf("feature", {"title", "description", "successCriteria"})
        ELSE NoOutputRules

\* the output rules _build_work_item_generation_system_prompt appends
OutputRules(wi) ==
    LET work_item_type == Get(wi.workItemType, "")
        process_template == Get(wi.processTemplate, "")
    IN  IF work_item_type \in {"Product Backlog Item", "User Story"}
        THEN OutputRulesOf("task", {"title", "description"})
        ELSE IF work_item_type = "Feature"
        THEN IF process_template = "Scrum"
             THEN OutputRulesOf("product backlog item",
                                {"title", "description", "acceptanceCriteria"})
             ELSE OutputRulesOf("user story", {"title", "description", "acceptanceCriteria"})
        ELSE IF work_item_type = "Epic"
        THEN OutputRulesOf("feature", {"title", "description", "successCriteria"})
        ELSE NoOutputRules

\* _build_work_item_generation_system_prompt: f"{base_prompt}\n\n**Output Rules**..."
GenerationSystemPrompt(env, wi, parameter_prompt) ==
    [base_prompt |-> BasePrompt(env, wi, parameter_prompt).base_prompt,
     rules |-> OutputRules(wi)]

\* parents of every type and template, one of them under the key of the stored
\* prompt
RulesWorkItems ==
    [workItemType : WorkItemTypes,
     processTemplate : ProcessTemplates,
     areaPath : {"Contoso\\Web"},
     businessUnit : {"Retail"},
     system : {"Checkout"}]

InitRules ==
    /\ rules_in \in {Some([env |-> e, work_item |-> wi, parameter_prompt |-> p]) :
                         e \in PromptEnvs, wi \in RulesWorkItems, p \in ParameterPrompts}
    /\ rules_out = None

\* the system prompt of one generation call
BuildSystemPrompt ==
    /\ rules_in # None
    /\ rules_out = None
    /\ rules_out' = Some(GenerationSystemPrompt(rules_in[1].env, rules_in[1].work_item,
                                                rules_in[1].parameter_prompt))
    /\ UNCHANGED rules_in
    /\ UNCHANGED <<pipelineVars, pureVars, previewVars, resolverVars, childrenVars,
                   createVars, finalizeVars>>

-----------------------------------------------------------------------------
(* The type-hierarchy resolver of the tracking-system client *)

\* faulty variant: the Scrum test of the Feature branch is dropped
AzureExpectedChildType_NoScrum(wi, plural) ==
    LET work_item_type == Get(wi.workItemType, "")
    IN  IF work_item_type = "Epic" THEN (IF plural THEN "Features" ELSE "Feature")
        ELSE IF work_item_type = "Feature"
        THEN (IF plural THEN "User Stories" ELSE "User Story")
        ELSE IF work_item_type \in {"User Story", "Product Backlog Item"}
        THEN (IF plural THEN "Tasks" ELSE "Task")
        ELSE NoChildType

\* AzureService._get_expected_child_work_item_type
AzureExpectedChildType(wi, plural) ==
    LET work_item_type == Get(wi.workItemType, "")
        process_template == Get(wi.processTemplate, "")
    IN  IF work_item_type = "Epic" THEN (IF plural THEN "Features" ELSE "Feature")
        ELSE IF work_item_type = "Feature"
        THEN IF process_template = "Scrum"
             THEN (IF plural THEN "Product Backlog Items" ELSE "Product Backlog Item")
             ELSE (IF plural THEN "User Stories" ELSE "User Story")
        ELSE IF work_item_type \in {"User Story", "Product Backlog Item"}
        THEN (IF plural THEN "Tasks" ELSE "Task")
        ELSE NoChildType

\* self._get_expected_child_work_item_type(work_item, plural=False) or "Task":
\* the System.WorkItemType of a created child
CreatedChildType(wi) ==
    LET expected == AzureExpectedChildType(wi, FALSE)
    IN  IF expected = NoChildType THEN "Task" ELSE expected

InitResolvers ==
    /\ azure_type_in \in {Some(i) : i \in TypeInputs}
    /\ azure_type_out = None

\* both resolvers and the type of a created child, for one parent
ResolveBoth ==
    /\ azure_type_in # None
    /\ azure_type_out = None
    /\ azure_type_out' =
          Some([bedrock |-> ExpectedChildType(azure_type_in[1], azure_type_in[1].plural),
                azure |-> AzureExpectedChildType(azure_type_in[1], azure_type_in[1].plural),
                created |-> CreatedChildType(azure_type_in[1])])
    /\ UNCHANGED azure_type_in
    /\ UNCHANGED <<pipelineVars, pureVars, previewVars, rulesVars, childrenVars,
                   createVars, finalizeVars>>

-----------------------------------------------------------------------------
(* Fetching the children of a work item *)

\* types and states of the children the batch request answers with; a child
\* without "System.State" has the state ""
FetchedChildTypes == {"Task", "Bug"}

FetchedChildStates == {"New", "Removed", "Closed", "Resolved", NoKey}

\* expected_child_type of the parent
ExpectedChildTypes == {"Task", "User Story", NoChildType}

\* the "value" list of the batch response: the children's ids are 1, 2, ...
BatchResponses ==
    {[i \in 1..Len(f) |-> [id |-> i, type |-> f[i].type, state |-> f[i].state]] :
        f \in SeqsOf([type : FetchedChildTypes, state : FetchedChildStates], MaxChildren)}

\* the dict built for a child: workItemType is set for the five known types only
ChildDict(child) ==
    [workItemId |-> child.id,
     state |-> Get(child.state, ""),
     workItemType |-> IF child.type \in {"Epic", "Feature", "Product Backlog Item",
                                         "User Story", "Task"}
                      THEN child.type ELSE NoKey]

\* state in ["Removed", "Closed", "Resolved"]
IsIgnoredState(child) == Get(child.state, "") \in {"Removed", "Closed", "Resolved"}

\* the warning of a child whose type is not the expected one
IsUnexpectedType(expected, child) == expected # NoChildType /\ child.type # expected

\* faulty variant: a child of an unexpected type is skipped
ChildItems_SkipUnexpected(expected, batch) ==
    LET kept == SelectSeq(batch, LAMBDA c : ~IsIgnoredState(c)
                                            /\ ~IsUnexpectedType(expected, c))
    IN  [i \in 1..Len(kept) |-> ChildDict(kept[i])]

\* the loop of get_child_work_items over the batch response: child_items
ChildItems(expected, batch) ==
    LET kept == SelectSeq(batch, LAMBDA c : ~IsIgnoredState(c))
    IN  [i \in 1..Len(kept) |-> ChildDict(kept[i])]

\* the ids of the children the loop logs a warning for
TypeWarnings(expected, batch) ==
    LET warned == SelectSeq(batch, LAMBDA c : IsUnexpectedType(expected, c))
    IN  [i \in 1..Len(warned) |-> warned[i].id]

InitChildren ==
    /\ children_in \in {Some([expected_child_type |-> e, batch |-> b]) :
                            e \in ExpectedChildTypes, b \in BatchResponses}
    /\ children_out = None

\* get_child_work_items from the batch response to the return
GetChildWorkItems ==
    /\ children_in # None
    /\ children_out = None
    /\ children_out' =
          Some([child_items |-> ChildItems(children_in[1].expected_child_type,
                                           children_in[1].batch),
                warnings |-> TypeWarnings(children_in[1].expected_child_type,
                                          children_in[1].batch)])
    /\ UNCHANGED children_in
    /\ UNCHANGED <<pipelineVars, pureVars, previewVars, rulesVars, resolverVars,
                   createVars, finalizeVars>>

-----------------------------------------------------------------------------
(* Creating the children of a work item *)

\* the parents of a creation; work_item["teamProject"] raises KeyError when the
\* key is absent
CreateWorkItems ==
    [workItemType : {"Feature", "User Story", "Task"},
     processTemplate : {"Scrum", "Agile"},
     teamProject : {"Contoso", NoKey}]

\* the id the tracking system gives to the k-th work item it creates
NewId(k) == 100 + k

\* the work item the tracking system holds after the POST of the child at
\* position i (from 1) of child_work_items
CreatedItem(wi, i, k) ==
    [id |-> NewId(k), type |-> CreatedChildType(wi), tags |-> "Task Genie", child |-> i]

MsgCreateFailed == "Failed to create"

MsgTeamProject == "'teamProject'"

\* the call in progress: created_items, the POST requests sent so far, and
\* nothing raised or answered yet
CreatePending ==
    [kind |-> "pending", created_items |-> <<>>, posts |-> 0, message |-> "", answer |-> ""]

\* create_child_work_items raises; the tool answers
\* f"Error creating child work items: {str(e)}"
CreateRaised(out, message) ==
    [out EXCEPT !.kind = "raised", !.message = message,
                !.answer = "Error creating child work items: "]

\* create_child_work_items returns created_items; the tool answers
CreateReturned(out) ==
    [out EXCEPT !.kind = "returned", !.answer = "Child work items created successfully."]

\* faulty variant: a failed creation deletes the children created before it
CreatedAfterFailure_Rollback(created) == <<>>

\* the tracking system after a failed creation: the code deletes nothing
CreatedAfterFailure(created) == created

InitCreate ==
    /\ cr_in \in {Some([work_item |-> wi, total |-> n]) :
                     wi \in CreateWorkItems, n \in 0..MaxChildren}
    /\ cr_pc = "start"
    /\ cr_idx = 0
    /\ cr_created = <<>>
    /\ cr_links = <<>>
    /\ cr_children = [i \in 1..cr_in[1].total |-> None]
    /\ cr_out = Some(CreatePending)

\* create_child_work_items up to the loop; without children the loop is not
\* entered and the empty created_items is returned
StartCreate ==
    /\ cr_pc = "start"
    /\ IF cr_in[1].total = 0
       THEN cr_pc' = "done" /\ cr_out' = Some(CreateReturned(cr_out[1]))
       ELSE cr_pc' = "create" /\ cr_out' = cr_out
    /\ UNCHANGED <<cr_in, cr_idx, cr_created, cr_links, cr_children>>
    /\ UNCHANGED <<pipelineVars, pureVars, previewVars, rulesVars, resolverVars,
                   childrenVars, finalizeVars>>

\* _create_child_work_item of the child at index cr_idx up to the link: the
\* POST succeeds or not
CreateChild(success) ==
    /\ cr_pc = "create"
    /\ IF cr_in[1].work_item.teamProject = NoKey
       THEN /\ cr_pc' = "done"
            /\ cr_created' = CreatedAfterFailure(cr_created)
            /\ cr_out' = Some(CreateRaised(cr_out[1], MsgTeamProject))
       ELSE IF ~success
       THEN /\ cr_pc' = "done"
            /\ cr_created' = CreatedAfterFailure(cr_created)
            /\ cr_out' = Some(CreateRaised([cr_out[1] EXCEPT !.posts = @ + 1],
                                           MsgCreateFailed))
       ELSE /\ cr_pc' = "link"
            /\ cr_created' = Append(cr_created,
                                    CreatedItem(cr_in[1].work_item, cr_idx + 1,
                                                Len(cr_created) + 1))
            /\ cr_out' = Some([cr_out[1] EXCEPT !.posts = @ + 1])
    /\ UNCHANGED <<cr_in, cr_idx, cr_links, cr_children>>
    /\ UNCHANGED <<pipelineVars, pureVars, previewVars, rulesVars, resolverVars,
                   childrenVars, finalizeVars>>

\* link_task of the child just created, whose except block logs every failure
\* and returns; then the rest of the loop body and, after the last child, the
\* return of created_items
LinkTask(success) ==
    /\ cr_pc = "link"
    /\ LET created_item == cr_created[Len(cr_created)]
           out == [cr_out[1] EXCEPT !.created_items = Append(@, created_item)]
       IN  /\ cr_links' = IF success THEN Append(cr_links, created_item.id) ELSE cr_links
           /\ cr_children' = [cr_children EXCEPT ![cr_idx + 1] = Some(created_item.id)]
           /\ cr_idx' = cr_idx + 1
           /\ IF cr_idx + 1 = cr_in[1].total
              THEN cr_pc' = "done" /\ cr_out' = Some(CreateReturned(out))
              ELSE cr_pc' = "create" /\ cr_out' = Some(out)
    /\ UNCHANGED <<cr_in, cr_created>>
    /\ UNCHANGED <<pipelineVars, pureVars, previewVars, rulesVars, resolverVars,
                   childrenVars, finalizeVars>>

-----------------------------------------------------------------------------
(* The finalize_response tool and the results store *)

\* the outcomes the agent passes; the Literal annotation is not enforced
FinalizeOutcomes == {"decomposed", "feedback_provided", "skipped", "error", "other"}

\* RESULTS_TABLE_NAME is unset, or names a table whose put_item succeeds or raises
ResultsTables == {"unset", "writable", "failing"}

\* child_work_items: None, or a list of up to MaxChildren created children
FinalizeChildren ==
    {None} \cup {Some([k \in 1..n |-> [workItemId |-> NewId(k)]]) : n \in 0..MaxChildren}

\* len(child_work_items) if child_work_items else 0
ChildCount(children) == IF children = None THEN 0 ELSE Len(children[1])

\* child_work_items or []
ChildList(children) == IF children = None THEN <<>> ELSE children[1]

\* the item _save_response_to_dynamodb builds
ResultsItem(execution_id, wi, children, result, comment) ==
    LET passed == result = "decomposed"
    IN  [executionId |-> execution_id,
         executionResult |-> IF passed THEN "SUCCEEDED" ELSE "FAILED",
         workItemId |-> Get(wi.workItemId, "0"),
         workItemStatus |-> passed,
         workItemComment |-> comment,
         workItemsCount |-> Len(children),
         workItemIds |-> [k \in 1..Len(children) |-> children[k].workItemId]]

\* _save_response_to_dynamodb: the put_item requests it sends and the items the
\* table holds afterwards; it returns None whatever happens
SaveResponseToDynamodb(table, execution_id, wi, children, result, comment) ==
    IF table = "unset" THEN [put_items |-> <<>>, stored |-> <<>>]
    ELSE LET item == ResultsItem(execution_id, wi, children, result, comment)
         IN  [put_items |-> <<item>>,
              stored |-> IF table = "writable" THEN <<item>> ELSE <<>>]

\* the response text, by its template and the values interpolated
ResponseText(result, wi, child_items_created) ==
    IF result \in {"decomposed", "feedback_provided", "skipped", "error"}
    THEN [template |-> result, work_item_id |-> Get(wi.workItemId, "0"),
          child_items_created |-> IF result = "decomposed" THEN child_items_created ELSE 0]
    ELSE [template |-> "", work_item_id |-> "", child_items_created |-> 0]

\* faulty variant: every outcome is saved
IsSaved_Always(result) == TRUE

\* the branch of finalize_response that calls _save_response_to_dynamodb
IsSaved(result) == result = "decomposed"

\* finalize_response
FinalizeResponse(in) ==
    LET answer == ResponseText(in.outcome, in.work_item, ChildCount(in.child_work_items))
        saved == IF IsSaved(in.outcome)
                 THEN SaveResponseToDynamodb(in.table, in.session_id, in.work_item,
                                             ChildList(in.child_work_items), in.outcome,
                                             answer)
                 ELSE [put_items |-> <<>>, stored |-> <<>>]
    IN  [returned |-> [workItemId |-> Get(in.work_item.workItemId, "0"),
                       outcome |-> in.outcome,
                       response |-> answer],
         save_calls |-> IF IsSaved(in.outcome) THEN 1 ELSE 0,
         put_items |-> saved.put_items,
         stored |-> saved.stored]

InitFinalize ==
    /\ fin_in \in {Some(i) : i \in [session_id : {"session-1", "session-2"},
                                    work_item : [workItemId : {"42", NoKey}],
                                    outcome : FinalizeOutcomes,
                                    child_work_items : FinalizeChildren,
                                    table : ResultsTables]}
    /\ fin_out = None

\* one call of the finalize_response tool
FinalizeResponseCall ==
    /\ fin_in # None
    /\ fin_out = None
    /\ fin_out' = Some(FinalizeResponse(fin_in[1]))
    /\ UNCHANGED fin_in
    /\ UNCHANGED <<pipelineVars, pureVars, previewVars, rulesVars, resolverVars,
                   childrenVars, createVars>>

-----------------------------------------------------------------------------
(* The tools around the service *)

NoToolOut == [kind |-> "none", prefix |-> "", message |-> <<>>, result |-> NoOutcome]

\* the tool has called the service and waits for it
ToolPending == [NoToolOut EXCEPT !.kind = "pending"]

\* the notice of the evaluate_work_item tool for a work item tagged "Task Genie"
ToolNotice == [NoToolOut EXCEPT !.kind = "notice"]

\* f"Error evaluating work item: {str(e)}" and f"Error generating work items: {str(e)}"
ToolError(operation, message) ==
    [NoToolOut EXCEPT !.kind = "error",
                      !.prefix = IF operation = "evaluate" THEN "Error evaluating work item: "
                                 ELSE "Error generating work items: ",
                      !.message = message]

\* json.dumps of pass, comment and sources, or of workItems and documents
ToolJson(operation, result) ==
    [NoToolOut EXCEPT !.kind = "json",
                      !.result = IF operation = "evaluate"
                                 THEN EvaluationResponse(result.passed, result.comment,
                                                         result.sources)
                                 ELSE GenerationResponse(result.work_items, result.documents)]

\* faulty variant: a failure of the service is answered with an empty result
ToolReturn_EmptyResult(operation, o) ==
    IF o.kind = "raised" THEN ToolJson(operation, [NoOutcome EXCEPT !.kind = "returned"])
    ELSE ToolJson(operation, o)

\* the try / except Exception of both tools around the service call
ToolReturn(operation, o) ==
    IF o.kind = "raised" THEN ToolError(operation, o.message)
    ELSE ToolJson(operation, o)

\* what the tool answers when the service call ends with o; a call of the
\* service that no tool made leaves no answer
ToolAnswer(operation, o) ==
    IF tool_out.kind = "pending" THEN ToolReturn(operation, o) ELSE tool_out

\* "Task Genie" in work_item.get("tags", [])
HasTaskGenieTag(wi) ==
    LET tags == GetList(wi.tags)
    IN  \E i \in 1..Len(tags) : tags[i] = "Task Genie"

-----------------------------------------------------------------------------
(* The service call: steps *)

PureIdle ==
    /\ TypeIdle /\ JsonIdle /\ FormatIdle /\ SizeIdle /\ FilterIdle /\ PromptIdle
    /\ ContentIdle

PreviewIdle == preview_in = None /\ preview_out = None

RulesIdle == rules_in = None /\ rules_out = None

ResolverIdle == azure_type_in = None /\ azure_type_out = None

ChildrenIdle == children_in = None /\ children_out = None

CreateIdle ==
    /\ cr_in = None
    /\ cr_pc = "idle"
    /\ cr_idx = 0
    /\ cr_created = <<>>
    /\ cr_links = <<>>
    /\ cr_children = <<>>
    /\ cr_out = None

FinalizeIdle == fin_in = None /\ fin_out = None

ToolIdle ==
    /\ PreviewIdle /\ RulesIdle /\ ResolverIdle /\ ChildrenIdle /\ CreateIdle
    /\ FinalizeIdle

InitPipeline ==
    /\ pc = "idle"
    /\ op = "none"
    /\ work_item = NoWorkItem
    /\ params = NoParams
    /\ retrieval = "none"
    /\ knowledge_context = <<>>
    /\ user_prompt = [kind |-> "none", documents |-> <<>>]
    /\ inference_config = [maxTokens |-> 0, temperature |-> None, topP |-> None]
    /\ converse_calls = 0
    /\ response = NoResponse
    /\ outcome = NoOutcome
    /\ retrieval_results = <<>>
    /\ content = <<>>
    /\ params_arg = None
    /\ tool_out = NoToolOut
    /\ service_calls = 0

\* evaluate_work_item up to the retrieve call; work_item['workItemType'] of the
\* first log line raises KeyError, which the except block logs and re-raises
StartEvaluate(wi) ==
    /\ pc = "idle"
    /\ op' = "evaluate"
    /\ work_item' = wi
    /\ service_calls' = service_calls + 1
    /\ IF wi.workItemType = NoKey
       THEN /\ pc' = "done"
            /\ outcome' = Raised(<<MsgKeyError>>, MsgKeyError)
            /\ tool_out' = ToolReturn("evaluate", outcome')
       ELSE /\ pc' = "retrieve"
            /\ outcome' = outcome
            /\ tool_out' = ToolPending
    /\ UNCHANGED <<params, retrieval, knowledge_context, user_prompt, inference_config,
                   converse_calls, response, retrieval_results, content, params_arg,
                   pureVars, toolVars>>

\* the evaluate_work_item tool of a work item tagged "Task Genie": the notice,
\* whose f-string raises KeyError for a work item without workItemType
AlreadyEvaluated(wi) ==
    /\ pc = "idle"
    /\ pc' = "done"
    /\ op' = "evaluate"
    /\ work_item' = wi
    /\ tool_out' = IF wi.workItemType = NoKey THEN ToolError("evaluate", <<MsgKeyError>>)
                   ELSE ToolNotice
    /\ UNCHANGED <<params, retrieval, knowledge_context, user_prompt, inference_config,
                   converse_calls, response, outcome, retrieval_results, content,
                   params_arg, service_calls, pureVars, toolVars>>

\* faulty variant: the service is called whatever the tags are
EvaluateTool_NoTagTest(wi) == StartEvaluate(wi)

\* the evaluate_work_item tool: the tag test, then the call of the service
EvaluateTool(wi) ==
    IF HasTaskGenieTag(wi) THEN AlreadyEvaluated(wi) ELSE StartEvaluate(wi)

\* generate_work_items up to the retrieve call
StartGenerate(wi, p) ==
    /\ pc = "idle"
    /\ op' = "generate"
    /\ work_item' = wi
    /\ params' = p
    /\ service_calls' = service_calls + 1
    /\ IF wi.workItemType = NoKey
       THEN pc' = "done" /\ outcome' = Raised(<<MsgKeyError>>, MsgKeyError)
       ELSE pc' = "retrieve" /\ outcome' = outcome
    /\ UNCHANGED <<retrieval, knowledge_context, user_prompt, inference_config,
                   converse_calls, response, retrieval_results, content, params_arg,
                   tool_out, pureVars, toolVars>>

\* the generate_work_items tool with the params argument d, up to the retrieve
\* call of the service: `params or BedrockInferenceParams()` keeps a non-empty
\* dict, and params.refinement_instructions of the first log record then raises
\* AttributeError
GenerateTool(wi, d) ==
    /\ pc = "idle"
    /\ op' = "generate"
    /\ work_item' = wi
    /\ params_arg' = d
    /\ params' = NoParams
    /\ service_calls' = service_calls + 1
    /\ IF wi.workItemType = NoKey
       THEN /\ pc' = "done"
            /\ outcome' = Raised(<<MsgKeyError>>, MsgKeyError)
            /\ tool_out' = ToolReturn("generate", outcome')
       ELSE IF d # None /\ d[1] # {}
       THEN /\ pc' = "done"
            /\ outcome' = Raised(<<MsgAttributeError>>, MsgAttributeError)
            /\ tool_out' = ToolReturn("generate", outcome')
       ELSE /\ pc' = "retrieve"
            /\ outcome' = outcome
            /\ tool_out' = ToolPending
    /\ UNCHANGED <<retrieval, knowledge_context, user_prompt, inference_config,
                   converse_calls, response, retrieval_results, content, pureVars,
                   toolVars>>

\* retrieve_knowledge_context with the knowledge base answering r; an exception
\* leaving it would end the call in the caller's except block
Retrieve(r) ==
    /\ pc = "retrieve"
    /\ retrieval' = r.kind
    /\ retrieval_results' = r.results
    /\ LET got == RetrieveKnowledgeContext(r)
       IN  IF got.raised
           THEN /\ pc' = "done"
                /\ outcome' = Raised(<<MsgRetrieval>>, MsgRetrieval)
                /\ knowledge_context' = knowledge_context
                /\ tool_out' = ToolAnswer(op, outcome')
           ELSE /\ pc' = "build"
                /\ outcome' = outcome
                /\ knowledge_context' = got.documents
                /\ tool_out' = tool_out
    /\ UNCHANGED <<op, work_item, params, user_prompt, inference_config, converse_calls,
                   response, content, params_arg, service_calls, pureVars, toolVars>>

\* _invoke_model_for_work_item_evaluation / _generation up to the converse call:
\* the user prompt and the inference configuration
BuildPrompt ==
    /\ pc = "build"
    /\ pc' = "converse"
    /\ user_prompt' =
          [kind |-> IF op = "evaluate" THEN "evaluation"
                    ELSE IF IsRefinement(params) THEN "refinement" ELSE "generation",
           documents |-> knowledge_context]
    /\ inference_config' =
          IF op = "evaluate" THEN EvaluationInferenceConfig
          ELSE GenerationInferenceConfig(params)
    /\ content' = BuildModelContent(GetList(work_item.images), DEFAULT_MAX_IMAGES,
                                    DEFAULT_MAX_IMAGE_SIZE).content
    /\ UNCHANGED <<op, work_item, params, retrieval, knowledge_context, converse_calls,
                   response, outcome, retrieval_results, params_arg, tool_out,
                   service_calls, pureVars, toolVars>>

\* the converse call answering resp, the parse of the response, and the return or
\* raise of the service call
Converse(resp) ==
    /\ pc = "converse"
    /\ pc' = "done"
    /\ converse_calls' = converse_calls + 1
    /\ response' = resp
    /\ outcome' =
          IF op = "evaluate"
          THEN InvokeModelForEvaluation(resp, knowledge_context)
          ELSE LET o == InvokeModelForGeneration(resp)
               IN  IF o.kind = "returned"
                   THEN GenerationResponse(o.work_items, knowledge_context)
                   ELSE o
    /\ tool_out' = ToolAnswer(op, outcome')
    /\ UNCHANGED <<op, work_item, params, retrieval, knowledge_context, user_prompt,
                   inference_config, retrieval_results, content, params_arg,
                   service_calls, pureVars, toolVars>>

Init ==
    /\ InitPipeline
    /\ TypeIdle /\ JsonIdle /\ FormatIdle /\ SizeIdle /\ FilterIdle /\ PromptIdle
    /\ ContentIdle
    /\ ToolIdle

Next ==
    \/ \E wi \in WorkItems : EvaluateTool(wi)
    \/ \E wi \in WorkItems, p \in InferenceParams : StartGenerate(wi, p)
    \/ \E wi \in WorkItems, d \in ParamsArgs : GenerateTool(wi, d)
    \/ \E r \in RetrievalOutcomes : Retrieve(r)
    \/ BuildPrompt
    \/ \E resp \in Responses : Converse(resp)

Spec == Init /\ [][Next]_vars

\* the resolver alone, on every input
InitSpecChildType ==
    /\ InitPipeline
    /\ InitChildType /\ JsonIdle /\ FormatIdle /\ SizeIdle /\ FilterIdle /\ PromptIdle
    /\ ContentIdle
    /\ ToolIdle

NextChildType == ResolveChildType

SpecChildType == InitSpecChildType /\ [][NextChildType]_vars

\* the lenient JSON extractor alone, on every token text
InitSpecJson ==
    /\ InitPipeline
    /\ TypeIdle /\ InitJson /\ FormatIdle /\ SizeIdle /\ FilterIdle /\ PromptIdle
    /\ ContentIdle
    /\ ToolIdle

NextJson == SafeJsonParseCall

SpecJson == InitSpecJson /\ [][NextJson]_vars

\* the image format detection alone, on byte buffers
InitSpecFormat ==
    /\ InitPipeline
    /\ TypeIdle /\ JsonIdle /\ InitFormat /\ SizeIdle /\ FilterIdle /\ PromptIdle
    /\ ContentIdle
    /\ ToolIdle

NextFormat == DetectImageFormatCall

SpecFormat == InitSpecFormat /\ [][NextFormat]_vars

\* the image size check alone, on sizes around the ceilings
InitSpecSize ==
    /\ InitPipeline
    /\ TypeIdle /\ JsonIdle /\ FormatIdle /\ InitSize /\ FilterIdle /\ PromptIdle
    /\ ContentIdle
    /\ ToolIdle

NextSize == IsImageSizeValidCall

SpecSize == InitSpecSize /\ [][NextSize]_vars

\* the breakdown filters alone, on every combination of the four fields
InitSpecFilters ==
    /\ InitPipeline
    /\ TypeIdle /\ JsonIdle /\ FormatIdle /\ SizeIdle /\ InitFilters /\ PromptIdle
    /\ ContentIdle
    /\ ToolIdle

NextFilters == BuildBreakdownFiltersCall

SpecFilters == InitSpecFilters /\ [][NextFilters]_vars

\* the base-prompt resolution alone
InitSpecPrompt ==
    /\ InitPipeline
    /\ TypeIdle /\ JsonIdle /\ FormatIdle /\ SizeIdle /\ FilterIdle /\ InitPrompt
    /\ ContentIdle
    /\ ToolIdle

NextPrompt == ResolvePromptCall

SpecPrompt == InitSpecPrompt /\ [][NextPrompt]_vars

\* the content builder alone, image by image
InitSpecContent ==
    /\ InitPipeline
    /\ TypeIdle /\ JsonIdle /\ FormatIdle /\ SizeIdle /\ FilterIdle /\ PromptIdle
    /\ InitContent
    /\ ToolIdle

NextContent ==
    \/ StartBuildContent
    \/ ProcessNextImage

SpecContent == InitSpecContent /\ [][NextContent]_vars

\* the knowledge section of one user prompt alone
InitSpecPreview ==
    /\ InitPipeline
    /\ PureIdle
    /\ InitPreview /\ RulesIdle /\ ResolverIdle /\ ChildrenIdle /\ CreateIdle
    /\ FinalizeIdle

NextPreview == BuildUserPrompt

SpecPreview == InitSpecPreview /\ [][NextPreview]_vars

\* the system prompt of a generation alone, on every parent
InitSpecRules ==
    /\ InitPipeline
    /\ PureIdle
    /\ PreviewIdle /\ InitRules /\ ResolverIdle /\ ChildrenIdle /\ CreateIdle
    /\ FinalizeIdle

NextRules == BuildSystemPrompt

SpecRules == InitSpecRules /\ [][NextRules]_vars

\* the loop of get_child_work_items alone, on every batch response
InitSpecChildren ==
    /\ InitPipeline
    /\ PureIdle
    /\ PreviewIdle /\ RulesIdle /\ ResolverIdle /\ InitChildren /\ CreateIdle
    /\ FinalizeIdle

NextChildren == GetChildWorkItems

SpecChildren == InitSpecChildren /\ [][NextChildren]_vars

\* the two resolvers side by side, on every input
InitSpecResolvers ==
    /\ InitPipeline
    /\ PureIdle
    /\ PreviewIdle /\ RulesIdle /\ InitResolvers /\ ChildrenIdle /\ CreateIdle
    /\ FinalizeIdle

NextResolvers == ResolveBoth

SpecResolvers == InitSpecResolvers /\ [][NextResolvers]_vars

\* one create_child_work_items call of the tool, request by request
InitSpecCreate ==
    /\ InitPipeline
    /\ PureIdle
    /\ PreviewIdle /\ RulesIdle /\ ResolverIdle /\ ChildrenIdle /\ InitCreate
    /\ FinalizeIdle

NextCreate ==
    \/ StartCreate
    \/ \E success \in BOOLEAN : CreateChild(success)
    \/ \E success \in BOOLEAN : LinkTask(success)

SpecCreate == InitSpecCreate /\ [][NextCreate]_vars

\* the finalize_response tool alone, on every outcome
InitSpecFinalize ==
    /\ InitPipeline
    /\ PureIdle
    /\ PreviewIdle /\ RulesIdle /\ ResolverIdle /\ ChildrenIdle /\ CreateIdle
    /\ InitFinalize

NextFinalize == FinalizeResponseCall

SpecFinalize == InitSpecFinalize /\ [][NextFinalize]_vars

-----------------------------------------------------------------------------
(* Claims about the type-hierarchy resolver (SpecChildType) *)

\* C1: for every work item type (also unrecognized or absent), every process
\* template (also unknown or absent) and both values of plural, the resolver
\* returns Feature(s) for an Epic, Product Backlog Item(s) for a Feature exactly
\* when the template is "Scrum" and User Story/Stories for a Feature otherwise,
\* Task(s) for a User Story or Product Backlog Item, and None for everything else.
C1_ChildTypeTable ==
    type_out # None =>
        LET i == type_in[1]
            expected ==
                IF i.workItemType = "Epic"
                THEN IF i.plural THEN "Features" ELSE "Feature"
                ELSE IF i.workItemType = "Feature" /\ i.processTemplate = "Scrum"
                THEN IF i.plural THEN "Product Backlog Items" ELSE "Product Backlog Item"
                ELSE IF i.workItemType = "Feature"
                THEN IF i.plural THEN "User Stories" ELSE "User Story"
                ELSE IF i.workItemType \in {"User Story", "Product Backlog Item"}
                THEN IF i.plural THEN "Tasks" ELSE "Task"
                ELSE NoChildType
        IN  type_out[1] = expected

C1_Witness ==
    /\ type_out # None
    /\ type_in[1].workItemType = "Feature"
    /\ type_in[1].processTemplate = "Scrum"
    /\ type_in[1].plural
    /\ type_out[1] = "Product Backlog Items"

-----------------------------------------------------------------------------
(* Claims about the service call (Spec) *)

PromptBuilt == op = "generate" /\ pc \in {"converse", "done"} /\ user_prompt.kind # "none"

BothRefinementInputs ==
    /\ params.refinement_instructions \notin {None, Some("")}
    /\ params.generated_work_items \notin {None, Some(<<>>)}

\* C2: a generation builds the refinement user prompt if and only if
\* refinement_instructions and generated_work_items are both present and
\* non-empty; in every other combination it builds the standard generation prompt.
C2_RefinementIff ==
    PromptBuilt =>
        /\ user_prompt.kind = "refinement" <=> BothRefinementInputs
        /\ ~BothRefinementInputs => user_prompt.kind = "generation"

C2_Witness ==
    /\ PromptBuilt
    /\ user_prompt.kind = "refinement"
    /\ params.refinement_instructions = Some("drop the second item")
    /\ params.generated_work_items = Some(<<"full1">>)

\* a generate call that received a response with text, so that the response
\* reached the token check of the parser
GenerationAnswered ==
    pc = "done" /\ op = "generate" /\ ~response.error /\ response.content = "text"

EvaluationAnswered ==
    pc = "done" /\ op = "evaluate" /\ ~response.error /\ response.content = "text"

\* the maximum configured for the call: params.max_tokens when set, else 10240
ConfiguredMaxTokens ==
    IF params.max_tokens # None THEN params.max_tokens[1] ELSE MAX_OUTPUT_TOKENS

\* C3 (as claimed): a generation response is rejected when its outputTokens meets
\* or exceeds the maximum configured for the call (params.max_tokens, else 10240),
\* and is never rejected on token grounds when outputTokens is below it.
C3_TokenCeilingIsConfiguredMax ==
    GenerationAnswered =>
        /\ inference_config.maxTokens = ConfiguredMaxTokens
        /\ response.outputTokens >= ConfiguredMaxTokens => outcome.kind = "raised"
        /\ response.outputTokens < ConfiguredMaxTokens => outcome.cause # MsgTokenLimit

\* C4 (as claimed): a generation whose response reports outputTokens at or above
\* the configured maximum raises an error that identifies the token-limit breach,
\* and returns no items.
C4_TokenLimitErrorReachesCaller ==
    (GenerationAnswered /\ response.outputTokens >= ConfiguredMaxTokens) =>
        /\ outcome.kind = "raised"
        /\ \E n \in 1..Len(outcome.message) : outcome.message[n] = MsgTokenLimit
        /\ outcome.work_items = NullV

\* C5 (as claimed): an evaluation whose response reports outputTokens at or above
\* the output-token ceiling (here: at or above 10240, which is above the 2048 the
\* evaluation sends as maxTokens) is aborted and returns no result.
C5_EvaluationTokenCeilingFatal ==
    (EvaluationAnswered /\ response.outputTokens >= MAX_OUTPUT_TOKENS) =>
        outcome.kind = "raised"

RequiredKey == IF op = "generate" THEN "workItems" ELSE "pass"

\* C6 (as claimed): a response whose text parses to a JSON object without the
\* required key (workItems for a generation, pass for an evaluation) makes the
\* call raise.
C6_MissingRequiredKeyFatal ==
    (GenerationAnswered \/ EvaluationAnswered) =>
        LET parsed == SafeJsonParse(response.text)
        IN  (parsed.ok /\ RequiredKey \notin DOMAIN parsed.obj) => outcome.kind = "raised"

\* C7 (as claimed): every evaluation result returned with passed = false carries
\* a non-empty comment.
C7_FailCarriesComment ==
    (pc = "done" /\ op = "evaluate" /\ outcome.kind = "returned" /\ ~outcome.passed) =>
        outcome.comment.kind = "string"

\* C8 (as claimed): whenever a generation returns, its work_items is a list whose
\* every element is an object with title and description.
C8_ReturnedItemsSchemaValid ==
    (pc = "done" /\ op = "generate" /\ outcome.kind = "returned") =>
        /\ outcome.work_items.kind = "list"
        /\ \A n \in 1..Len(outcome.work_items.items) :
              /\ ItemHasTitle(outcome.work_items.items[n])
              /\ ItemHasDescription(outcome.work_items.items[n])

RetrievalFailed == retrieval \in {"config_error", "client_error", "process_error"}

\* C9: a failure of the knowledge-base retrieve (building the configuration,
\* calling the client, processing the results) yields an empty document list
\* without raising, and the evaluate or generate call goes on to build its prompt
\* with zero documents and to invoke the model.
C9_RetrievalFailureTolerated ==
    RetrievalFailed =>
        /\ knowledge_context = <<>>
        /\ outcome.cause # MsgRetrieval
        /\ pc \in {"build", "converse", "done"}
        /\ pc \in {"converse", "done"} => user_prompt.kind # "none" /\ user_prompt.documents = <<>>
        /\ pc = "done" => converse_calls = 1

C9_Witness ==
    /\ retrieval = "client_error"
    /\ pc = "done"
    /\ converse_calls = 1
    /\ outcome.kind = "returned"

-----------------------------------------------------------------------------
(* Claims about the lenient JSON extractor (SpecJson) *)

\* the well-formed objects nested at most d deep with at most two members, each
\* with the dict it denotes; WellFormed(1) holds every object of up to 6 tokens
RECURSIVE WellFormed(_)
WellFormed(d) ==
    LET items ==
            {[toks |-> <<Member("a", JsonV("number"))>>, obj |-> "a" :> JsonV("number")]}
            \cup (IF d = 0 THEN {}
                  ELSE {[toks |-> <<Key("b")>> \o o.toks, obj |-> "b" :> JsonV("object")] :
                            o \in WellFormed(d - 1)})
        lists ==
            items \cup {[toks |-> x.toks \o <<Comma>> \o y.toks, obj |-> y.obj @@ x.obj] :
                            x \in items, y \in items}
    IN  {[toks |-> <<LB, RB>>, obj |-> EmptyObj]}
        \cup {[toks |-> <<LB>> \o l.toks \o <<RB>>, obj |-> l.obj] : l \in lists}

Proses(n) == [i \in 1..n |-> Prose]

Count(s, tok, n) == Cardinality({i \in 1..n : s[i] = tok})

\* every '}' closes an earlier '{', and every '{' is closed
Balanced(s) ==
    /\ Count(s, LB, Len(s)) = Count(s, RB, Len(s))
    /\ \A n \in 1..Len(s) : Count(s, LB, n) >= Count(s, RB, n)

Parsed == json_out # None

\* prose without braces around one well-formed object: the object is returned
C10_ProseAroundObject ==
    \A w \in WellFormed(1) : \A i \in 0..(Len(json_in) - Len(w.toks)) :
        json_in = Proses(i) \o w.toks \o Proses(Len(json_in) - Len(w.toks) - i) =>
            json_out[1] = [ok |-> TRUE, obj |-> w.obj]

\* no '{' at all, or no '}' at all: None
C10_NoBrace ==
    ((\A i \in 1..Len(json_in) : json_in[i] # LB) \/ (\A i \in 1..Len(json_in) : json_in[i] # RB))
        => ~json_out[1].ok

\* C10 (as claimed): prose around one well-formed object yields the object; a
\* text with no '{' or with unbalanced braces yields None.
C10_UnbalancedIsNone ==
    Parsed =>
        /\ C10_ProseAroundObject
        /\ C10_NoBrace
        /\ ~Balanced(json_in) => ~json_out[1].ok

\* C10 (amended): prose without braces around one well-formed object yields the
\* object; a text with no '{', with no '}' after the first '{', or whose braces
\* between the first '{' and the last '}' are unbalanced yields None.
C10_SpanDecides ==
    Parsed =>
        /\ C10_ProseAroundObject
        /\ C10_NoBrace
        /\ \A first \in 1..Len(json_in) : \A last \in 1..Len(json_in) :
              ( /\ json_in[first] = LB
                /\ \A i \in 1..(first - 1) : json_in[i] # LB
                /\ json_in[last] = RB
                /\ \A i \in (last + 1)..Len(json_in) : json_in[i] # RB
                /\ (last < first \/ ~Balanced(SubSeq(json_in, first, last))) )
              => ~json_out[1].ok

\* one object with prose on both sides, extracted
C10_Witness ==
    /\ Parsed
    /\ json_in = <<Prose, LB, Member("a", JsonV("number")), RB, Prose>>
    /\ json_out[1] = [ok |-> TRUE, obj |-> "a" :> JsonV("number")]

-----------------------------------------------------------------------------
(* Claims about the image format detection (SpecFormat) *)

StartsWith(buffer, signature) ==
    /\ Len(buffer) >= Len(signature)
    /\ SubSeq(buffer, 1, Len(signature)) = signature

Detected == fmt_out # None

\* C11: for every byte buffer the detected format is "jpeg" when the buffer
\* starts FF D8 FF, "png" when it starts 89 50 4E 47, "webp" when it starts
\* 52 49 46 46 and bytes 8..11 are 57 45 42 50, "gif" when it starts 47 49 46 38,
\* and "jpeg" for every other buffer, also for a buffer shorter than 4 bytes and
\* for a RIFF buffer shorter than 12 bytes.
C11_SignatureTable ==
    Detected =>
        LET riff == StartsWith(fmt_in, <<82, 73, 70, 70>>)
            webp == riff /\ Len(fmt_in) >= 12 /\ SubSeq(fmt_in, 9, 12) = <<87, 69, 66, 80>>
        IN  /\ StartsWith(fmt_in, <<255, 216, 255>>) => fmt_out[1] = "jpeg"
            /\ StartsWith(fmt_in, <<137, 80, 78, 71>>) => fmt_out[1] = "png"
            /\ webp => fmt_out[1] = "webp"
            /\ StartsWith(fmt_in, <<71, 73, 70, 56>>) => fmt_out[1] = "gif"
            /\ Len(fmt_in) < 4 => fmt_out[1] = "jpeg"
            /\ (riff /\ Len(fmt_in) < 12) => fmt_out[1] = "jpeg"
            /\ ( /\ ~StartsWith(fmt_in, <<137, 80, 78, 71>>)
                 /\ ~webp
                 /\ ~StartsWith(fmt_in, <<71, 73, 70, 56>>) ) => fmt_out[1] = "jpeg"

\* a RIFF buffer of 12 bytes without WEBP at bytes 8..11, detected as the default
C11_Witness ==
    /\ Detected
    /\ fmt_in = <<82, 73, 70, 70, 0, 0, 0, 0, 87, 69, 66, 0>>
    /\ fmt_out[1] = "jpeg"

-----------------------------------------------------------------------------
(* Claims about the content builder (SpecContent) *)

\* the 1-based positions of the references _build_model_content looks at
Considered ==
    1..(IF Len(cb_in.images) < cb_in.max_images THEN Len(cb_in.images) ELSE cb_in.max_images)

\* an image that can be fetched, has a body and is not larger than the ceiling
Accepted(image) ==
    /\ image.fetch = "ok"
    /\ image.size > 0
    /\ image.size <= DEFAULT_MAX_IMAGE_SIZE * (1024 * 1024)

\* C12: the content starts with the text block, followed by exactly one image
\* block per accepted image among the first min(k, N) references, in the order of
\* the references; no reference beyond position N is handled; on return the
\* block count is 1 + the number of accepted images and at most 1 + N.
C12_TextThenAcceptedImages ==
    cb_pc # "idle" =>
        /\ cb_content[1] = TextBlock
        /\ cb_idx <= Cardinality(Considered) + 1
        /\ \A j \in 2..Len(cb_content) :
              /\ cb_content[j].image \in Considered
              /\ cb_content[j].image < cb_idx
              /\ Accepted(cb_in.images[cb_content[j].image])
              /\ cb_content[j].format =
                    (IF cb_in.images[cb_content[j].image].head = PngHead THEN "png" ELSE "jpeg")
              /\ j > 2 => cb_content[j - 1].image < cb_content[j].image
        /\ cb_pc = "done" =>
              /\ Len(cb_content) = 1 + Cardinality({i \in Considered : Accepted(cb_in.images[i])})
              /\ Len(cb_content) <= 1 + cb_in.max_images

\* five valid images and a maximum of three: the first three and the text block
C12_Witness ==
    /\ cb_pc = "done"
    /\ cb_in.max_images = DEFAULT_MAX_IMAGES
    /\ Len(cb_in.images) = DEFAULT_MAX_IMAGES + 2
    /\ \A i \in 1..Len(cb_in.images) : Accepted(cb_in.images[i])
    /\ cb_content = <<TextBlock, ImageBlock("png", 1), ImageBlock("png", 2), ImageBlock("png", 3)>>

\* C13: a failure while handling one image (construction of the tracking-system
\* client, fetch, empty payload, size) only skips that image: the builder never
\* raises, its loop goes on to every remaining candidate, and every accepted
\* image before and after the failing one is in the content.
C13_ImageFailureSkipsOnlyThatImage ==
    /\ cb_pc # "raised"
    /\ cb_pc = "loop" => cb_idx \in Considered
    /\ cb_pc \in {"loop", "done"} =>
          \A i \in Considered :
              (i < cb_idx /\ Accepted(cb_in.images[i])) =>
                  \E j \in 2..Len(cb_content) : cb_content[j].image = i
    /\ cb_pc = "done" => (Considered # {} => cb_idx = Cardinality(Considered) + 1)

\* an image that fails between two accepted ones
C13_Witness ==
    /\ cb_pc = "done"
    /\ Len(cb_in.images) = 3
    /\ cb_in.max_images = DEFAULT_MAX_IMAGES
    /\ Accepted(cb_in.images[1])
    /\ cb_in.images[2].fetch = "construct_error"
    /\ Accepted(cb_in.images[3])
    /\ cb_content = <<TextBlock, ImageBlock("png", 1), ImageBlock("png", 3)>>

-----------------------------------------------------------------------------
(* Claims about the image size check (SpecSize) *)

\* C14: a fetched image passes the size check if and only if its decoded size
\* is at most max_image_size MB of 1024*1024 bytes, the ceiling itself and
\* images whose base64 text ends in padding included.
C14_ValidIffDecodedSizeWithinCeiling ==
    size_out # None =>
        (size_out[1] <=> size_in[1].size <= size_in[1].max_image_size * (1024 * 1024))

-----------------------------------------------------------------------------
(* Claims about the breakdown filters (SpecFilters) *)

FilterKeys == <<"workItemType", "areaPath", "businessUnit", "system">>

\* the keys whose field is present and non-empty, in the order of FilterKeys
GivenKeys(wi) == SelectSeq(FilterKeys, LAMBDA k : wi[k] \notin {NoKey, ""})

\* C16: one equality condition per present and non-empty field among
\* workItemType, areaPath, businessUnit and system, in that order; an andAll of
\* them when there are two or more, the bare condition when there is one, no
\* filter when there is none; the retrieval configuration has a filter only when
\* one was returned.
C16_FiltersByGivenFields ==
    filter_out # None =>
        LET wi == filter_in[1]
            given == GivenKeys(wi)
            filters == filter_out[1].filters
            config == filter_out[1].config
        IN  /\ Len(filters.conditions) = Len(given)
            /\ \A i \in 1..Len(given) :
                  filters.conditions[i] = [key |-> given[i], value |-> wi[given[i]]]
            /\ Len(given) >= 2 => (filters.has_filter /\ filters.op = "andAll")
            /\ Len(given) = 1 => (filters.has_filter /\ filters.op = "equals")
            /\ Len(given) = 0 => ~filters.has_filter
            /\ ("filter" \in config.keys) <=> (Len(given) >= 1)
            /\ "filter" \in config.keys =>
                  (config.op = filters.op /\ config.conditions = filters.conditions)

\* one field given: the bare condition
C16_Witness ==
    /\ filter_out # None
    /\ filter_in[1] = [workItemType |-> "", areaPath |-> NoKey, businessUnit |-> "Retail",
                       system |-> NoKey]
    /\ filter_out[1].filters = Filters("equals", <<Equals("businessUnit", "Retail")>>)
    /\ "filter" \in filter_out[1].config.keys

-----------------------------------------------------------------------------
(* Claims about the prompt resolution (SpecPrompt) *)

\* the built-in default of a work item type
BuiltInDefault(wi) ==
    IF wi.workItemType = "Epic" THEN "default: Epic into Features"
    ELSE IF wi.workItemType = "Feature" /\ wi.processTemplate = "Scrum"
    THEN "default: Feature into Product Backlog Items"
    ELSE IF wi.workItemType = "Feature" THEN "default: Feature into User Stories"
    ELSE ""

\* the config table can be asked and holds a non-empty prompt under the key of
\* the work item
StoredPromptFor(i) ==
    /\ i.env.config_table_name # ""
    /\ i.env.store = "item_prompt"
    /\ i.work_item.workItemType = StoredKey[1]
    /\ i.work_item.areaPath = StoredKey[2]
    /\ i.work_item.businessUnit = StoredKey[3]
    /\ i.work_item.system = StoredKey[4]

\* C17: a non-empty call-time prompt is used and the config store is not
\* consulted; otherwise a prompt stored under workItemType#areaPath#businessUnit#
\* system is used; otherwise the built-in default of the work item type. A lookup
\* that fails (exception, no table configured, no item, no prompt attribute)
\* ends in the built-in default.
C17_PromptPriority ==
    prompt_out # None =>
        LET i == prompt_in[1]
            o == prompt_out[1]
            called == i.parameter_prompt # None /\ i.parameter_prompt[1] # ""
        IN  /\ called => (o.base_prompt = i.parameter_prompt[1] /\ ~o.lookup.consulted)
            /\ (~called /\ StoredPromptFor(i)) =>
                  /\ o.base_prompt = StoredPrompt
                  /\ o.lookup.consulted
                  /\ o.lookup.ado_key = <<i.work_item.workItemType, i.work_item.areaPath,
                                          i.work_item.businessUnit, i.work_item.system>>
            /\ (~called /\ ~StoredPromptFor(i)) => o.base_prompt = BuiltInDefault(i.work_item)

\* the config table is unreachable and no call-time prompt is given
C17_Witness ==
    /\ prompt_out # None
    /\ prompt_in[1].parameter_prompt = Some("")
    /\ prompt_in[1].env = [config_table_name |-> "config-table", store |-> "unreachable"]
    /\ prompt_in[1].work_item.workItemType = "Feature"
    /\ prompt_in[1].work_item.processTemplate = "Scrum"
    /\ prompt_out[1].lookup.consulted
    /\ prompt_out[1].base_prompt = "default: Feature into Product Backlog Items"

-----------------------------------------------------------------------------
(* Claims about the inference configuration of a generation (Spec) *)

\* C15: the inferenceConfig of a generation holds exactly one of temperature and
\* topP: the caller's temperature whenever one is given, 0.0 included, otherwise
\* the caller's top_p when one is given, otherwise temperature 0.5.
C15_ExactlyOneSamplingField ==
    PromptBuilt =>
        /\ (inference_config.temperature # None) # (inference_config.topP # None)
        /\ params.temperature # None =>
              (inference_config.temperature = params.temperature /\ inference_config.topP = None)
        /\ (params.temperature = None /\ params.top_p # None) =>
              (inference_config.topP = params.top_p /\ inference_config.temperature = None)
        /\ (params.temperature = None /\ params.top_p = None) =>
              (inference_config.temperature = Some("0.5") /\ inference_config.topP = None)

-----------------------------------------------------------------------------
(* Claims about what a successful call returns (Spec) *)

\* the source of the document made of the i-th retrieval result
SourceOfResult(i) ==
    IF retrieval_results[i] = NoKey THEN DocumentLabels[i] ELSE retrieval_results[i]

\* seq is the list of the sources of the retrieval results, in their order
IsRetrievedSources(seq) ==
    /\ Len(seq) = Len(retrieval_results)
    /\ \A i \in 1..Len(seq) : seq[i] = SourceOfResult(i)

\* C18: a successful generate_work_items call returns the workItems array of the
\* model's response, element by element in the same order and of the same
\* length, and the retrieved knowledge documents in retrieval order.
C18_ItemsAndDocumentsRoundTrip ==
    (op = "generate" /\ outcome.kind = "returned") =>
        /\ \A i \in 1..Len(response.text) :
              ( /\ response.text[i].t = "member"
                /\ response.text[i].k = "workItems"
                /\ response.text[i].v.kind = "list" ) =>
                  /\ outcome.work_items.kind = "list"
                  /\ Len(outcome.work_items.items) = Len(response.text[i].v.items)
                  /\ \A n \in 1..Len(response.text[i].v.items) :
                        outcome.work_items.items[n] = response.text[i].v.items[n]
        /\ IsRetrievedSources(outcome.documents)

\* an array with an element without title, and two documents
C18_Witness ==
    /\ op = "generate"
    /\ outcome.kind = "returned"
    /\ response.text = <<LB, WorkItemsM(ListV(<<"full1", "notitle">>)), RB>>
    /\ outcome.work_items.items = <<"full1", "notitle">>
    /\ retrieval_results = <<"s3://kb/a.md", NoKey>>
    /\ outcome.documents = <<"s3://kb/a.md", "Document 2">>

\* C19: a successful evaluate_work_item call returns as sources the sources of
\* all retrieved documents, in retrieval order and of the same length, whatever
\* the response says about sources; the list is empty exactly when the retrieval
\* returned no documents or failed.
C19_SourcesAreRetrievedDocuments ==
    (op = "evaluate" /\ outcome.kind = "returned") =>
        /\ IsRetrievedSources(outcome.sources)
        /\ (outcome.sources = <<>>) <=> (retrieval # "ok" \/ retrieval_results = <<>>)

\* the model cites a source of its own
C19_Witness ==
    /\ op = "evaluate"
    /\ outcome.kind = "returned"
    /\ \E i \in 1..Len(response.text) : response.text[i].k = "sources"
    /\ retrieval_results = <<NoKey, "s3://kb/a.md">>
    /\ outcome.sources = <<"Document 1", "s3://kb/a.md">>

-----------------------------------------------------------------------------
(* Claims about the order of a call (Spec) *)

\* the response holds no text, or a text without '{' or without '}'
Unparseable ==
    \/ response.content # "text"
    \/ \A i \in 1..Len(response.text) : response.text[i] # LB
    \/ \A i \in 1..Len(response.text) : response.text[i] # RB

\* C20: within one call converse is invoked at most once, only after the
\* knowledge retrieval and the content building have finished, and not again
\* after an invocation error or a parsing failure: such a failure ends the call
\* with an error and no result.
C20_ConverseOnceNoRetry ==
    /\ converse_calls <= 1
    /\ converse_calls = 1 =>
          /\ pc = "done"
          /\ retrieval # "none"
          /\ user_prompt.kind # "none"
          /\ content # <<>> /\ content[1] = TextBlock
    /\ (converse_calls = 1 /\ (response.error \/ Unparseable)) =>
          outcome = [NoOutcome EXCEPT !.kind = "raised", !.message = outcome.message,
                                      !.cause = outcome.cause]

\* an evaluation whose converse call fails
C20_Witness ==
    /\ op = "evaluate"
    /\ converse_calls = 1
    /\ response.error
    /\ retrieval = "ok"
    /\ Len(content) = 3
    /\ outcome.kind = "raised"

-----------------------------------------------------------------------------
(* Claims about the tools around the service (Spec) *)

\* a tool has called the service and the call has ended
ToolCallEnded == pc = "done" /\ service_calls = 1 /\ tool_out.kind # "none"

\* C24: when the evaluate_work_item or generate_work_items call of the service
\* fails, the tool returns no JSON result but a string made of
\* "Error evaluating work item: " or "Error generating work items: " and the
\* message of the failure; it returns the JSON result, holding what the service
\* returned, only when the call succeeded.
C24_ToolErrorIffServiceFailed ==
    ToolCallEnded =>
        /\ outcome.kind \in {"raised", "returned"}
        /\ tool_out.kind \in {"error", "json"}
        /\ outcome.kind = "raised" =>
              /\ tool_out.kind = "error"
              /\ tool_out.prefix = (IF op = "evaluate" THEN "Error evaluating work item: "
                                    ELSE "Error generating work items: ")
              /\ tool_out.message = outcome.message
              /\ tool_out.result = NoOutcome
        /\ outcome.kind = "returned" =>
              /\ tool_out.kind = "json"
              /\ tool_out.message = <<>>
              /\ tool_out.result = outcome

\* a generation of the tool whose converse call fails after a retrieval
C24_Witness ==
    /\ ToolCallEnded
    /\ op = "generate"
    /\ retrieval = "ok"
    /\ converse_calls = 1
    /\ response.error
    /\ outcome.kind = "raised"
    /\ tool_out.kind = "error"
    /\ tool_out.prefix = "Error generating work items: "

\* the generate_work_items tool was given a non-empty params dict
ParamsSupplied == params_arg # None /\ params_arg[1] # {}

\* C25: a generate_work_items call of the tool with a non-empty params dict does
\* not fail because params were supplied: for a work item with a type the call
\* goes on to the knowledge retrieval, and the parameters given are those of the
\* invocation.
C25_SuppliedParamsTakeEffect ==
    (pc = "done" /\ op = "generate" /\ ParamsSupplied /\ work_item.workItemType # NoKey) =>
        /\ retrieval # "none"
        /\ tool_out.message # <<MsgAttributeError>>
        /\ ("refinement_instructions" \in params_arg[1]) = IsRefinement(params)

-----------------------------------------------------------------------------
(* Claims about the document previews (SpecPreview) *)

\* C21: the user prompt of an evaluation, a generation or a refinement embeds
\* every retrieved document, in order, as the first 500 characters of its
\* content (the whole content when it is shorter), and the contents of the
\* retrieved documents are as long after the prompt was built as before.
C21_PreviewIsFirst500Chars ==
    preview_out # None =>
        LET docs == preview_in[1].documents
            out == preview_out[1]
        IN  /\ out.documents = docs
            /\ Len(out.previews) = Len(docs)
            /\ \A i \in 1..Len(docs) :
                  /\ out.previews[i].doc = i
                  /\ out.previews[i].chars = (IF docs[i] < 500 THEN docs[i] ELSE 500)

-----------------------------------------------------------------------------
(* Claims about the system prompt of a generation (SpecRules) *)

\* the objects the output rules name for a child type of the hierarchy
ObjectsNamed(child_type) ==
    CASE child_type = "Product Backlog Item" -> "product backlog item"
      [] child_type = "User Story" -> "user story"
      [] child_type = "Feature" -> "feature"
      [] child_type = "Task" -> "task"
      [] OTHER -> ""

\* the base prompt of the built system prompt is a custom one
CustomBasePrompt ==
    rules_out[1].base_prompt \in {StoredPrompt, "call-time prompt"}

\* C22: the output rules of the generation system prompt depend on the parent
\* type and the process template only, whether the base prompt is a custom one
\* or the default: a Scrum Feature asks for product backlog item objects with
\* title, description and acceptanceCriteria, any other Feature for user story
\* objects with the same keys, an Epic for feature objects with title,
\* description and successCriteria, a User Story or Product Backlog Item for
\* task objects with title and description; the objects asked for are those of
\* the expected child type of the parent.
C22_OutputRulesFollowHierarchy ==
    rules_out # None =>
        LET wi == rules_in[1].work_item
            rules == rules_out[1].rules
        IN  /\ (wi.workItemType = "Feature" /\ wi.processTemplate = "Scrum") =>
                  rules = [given |-> TRUE, objects |-> "product backlog item",
                           keys |-> {"title", "description", "acceptanceCriteria"}]
            /\ (wi.workItemType = "Feature" /\ wi.processTemplate # "Scrum") =>
                  rules = [given |-> TRUE, objects |-> "user story",
                           keys |-> {"title", "description", "acceptanceCriteria"}]
            /\ wi.workItemType = "Epic" =>
                  rules = [given |-> TRUE, objects |-> "feature",
                           keys |-> {"title", "description", "successCriteria"}]
            /\ wi.workItemType \in {"User Story", "Product Backlog Item"} =>
                  rules = [given |-> TRUE, objects |-> "task",
                           keys |-> {"title", "description"}]
            /\ rules.given = (ExpectedChildType(wi, FALSE) # NoChildType)
            /\ rules.objects = ObjectsNamed(ExpectedChildType(wi, FALSE))

\* a Scrum Feature whose base prompt is the prompt stored in the config table
C22_Witness ==
    /\ rules_out # None
    /\ rules_in[1].work_item.workItemType = "Feature"
    /\ rules_in[1].work_item.processTemplate = "Scrum"
    /\ rules_out[1].base_prompt = StoredPrompt
    /\ CustomBasePrompt
    /\ rules_out[1].rules.objects = "product backlog item"

-----------------------------------------------------------------------------
(* Claims about the fetched children (SpecChildren) *)

\* the positions in the batch response of the children that were returned
ReturnedFrom(batch, child_items) ==
    {i \in 1..Len(batch) : \E j \in 1..Len(child_items) : child_items[j].workItemId = batch[i].id}

\* C23: get_child_work_items returns a fetched child if and only if its state
\* is none of Removed, Closed and Resolved, whether or not its type is the
\* expected child type of the parent (a different type is only warned about),
\* each child once and in the order of the batch response.
C23_ReturnedIffStateOpen ==
    children_out # None =>
        LET batch == children_in[1].batch
            expected == children_in[1].expected_child_type
            child_items == children_out[1].child_items
        IN  /\ \A i \in 1..Len(batch) :
                  (i \in ReturnedFrom(batch, child_items))
                     = (batch[i].state \notin {"Removed", "Closed", "Resolved"})
            /\ \A j, k \in 1..Len(child_items) :
                  j < k => child_items[j].workItemId < child_items[k].workItemId
            /\ \A i \in 1..Len(batch) :
                  (expected # NoChildType /\ batch[i].type # expected)
                     => \E w \in 1..Len(children_out[1].warnings) :
                            children_out[1].warnings[w] = batch[i].id

\* a Bug child of a parent that expects Tasks is returned, ahead of a Task
\* without state, and a closed child is left out
C23_Witness ==
    /\ children_out # None
    /\ children_in[1].expected_child_type = "Task"
    /\ Len(children_in[1].batch) = 3
    /\ children_in[1].batch[1].state = "Closed"
    /\ children_in[1].batch[2].type = "Bug"
    /\ children_in[1].batch[2].state = "New"
    /\ children_in[1].batch[3].type = "Task"
    /\ children_in[1].batch[3].state = NoKey
    /\ Len(children_out[1].child_items) = 2
    /\ children_out[1].child_items[1].workItemId = 2
    /\ children_out[1].warnings = <<2>>

-----------------------------------------------------------------------------
(* Claims about the two resolvers (SpecResolvers) *)

\* C30: the resolver of BedrockService and the resolver of AzureService return
\* the same value for every work item type, process template and plural flag,
\* so the type a created child gets is the child type the generation asks for;
\* only for a parent without expected child type does the creation differ, by
\* falling back to the type "Task".
C30_ResolversAgree ==
    azure_type_out # None =>
        LET wi == azure_type_in[1]
            out == azure_type_out[1]
        IN  /\ out.azure = out.bedrock
            /\ ExpectedChildType(wi, FALSE) # NoChildType =>
                  out.created = ExpectedChildType(wi, FALSE)
            /\ ExpectedChildType(wi, FALSE) = NoChildType => out.created = "Task"

\* a Scrum Feature: both resolvers answer Product Backlog Items
C30_Witness ==
    /\ azure_type_out # None
    /\ azure_type_in[1].workItemType = "Feature"
    /\ azure_type_in[1].processTemplate = "Scrum"
    /\ azure_type_in[1].plural
    /\ azure_type_out[1].azure = "Product Backlog Items"
    /\ azure_type_out[1].bedrock = "Product Backlog Items"
    /\ azure_type_out[1].created = "Product Backlog Item"

-----------------------------------------------------------------------------
(* Claims about the creation of children (SpecCreate) *)

\* the created work item with the id n is linked to the parent
IsLinked(n) == \E i \in 1..Len(cr_links) : cr_links[i] = n

\* C26: when create_child_work_items returns, and the tool answers "Child work
\* items created successfully.", every created child it returns has been linked
\* to the parent.
C26_ReportedCreatedAreLinked ==
    (cr_out # None /\ cr_out[1].kind = "returned") =>
        \A i \in 1..Len(cr_out[1].created_items) : IsLinked(cr_out[1].created_items[i].id)

\* C28: the children are created one after the other in input order and never
\* deleted: when the creation of the child at index i fails the call raises
\* with i children created and tagged "Task Genie", i + 1 requests sent and no
\* later child touched; when the call returns, created_items holds one item
\* per input child in input order and every child's workItemId is the id of its
\* own item.
C28_SequentialNoRollback ==
    cr_out # None =>
        LET out == cr_out[1]
            total == cr_in[1].total
        IN  /\ \A k \in 1..Len(cr_created) :
                  /\ cr_created[k].child = k
                  /\ cr_created[k].tags = "Task Genie"
                  /\ cr_created[k].id = NewId(k)
            /\ out.kind = "raised" =>
                  /\ cr_pc = "done"
                  /\ cr_idx < total
                  /\ Len(cr_created) = cr_idx
                  /\ out.posts <= cr_idx + 1
                  /\ out.message = MsgCreateFailed => out.posts = cr_idx + 1
                  /\ \A k \in 1..total : (cr_children[k] # None) = (k <= cr_idx)
                  /\ out.answer = "Error creating child work items: "
            /\ out.kind = "returned" =>
                  /\ cr_pc = "done"
                  /\ Len(out.created_items) = total
                  /\ out.created_items = cr_created
                  /\ out.posts = total
                  /\ \A k \in 1..total :
                        /\ out.created_items[k].child = k
                        /\ cr_children[k] = Some(out.created_items[k].id)

\* the creation of the third child fails after two children were created
C28_Witness ==
    /\ cr_out # None
    /\ cr_out[1].kind = "raised"
    /\ cr_out[1].message = MsgCreateFailed
    /\ cr_in[1].total = 3
    /\ cr_idx = 2
    /\ Len(cr_created) = 2
    /\ cr_children = <<Some(NewId(1)), Some(NewId(2)), None>>

-----------------------------------------------------------------------------
(* Claims about the finalize_response tool (SpecFinalize) *)

\* the number of children passed to the call
ChildrenPassed ==
    IF fin_in[1].child_work_items = None THEN 0 ELSE Len(fin_in[1].child_work_items[1])

\* C29: finalize_response hands a record to the results store if and only if
\* the outcome is "decomposed": the record has the session id as executionId,
\* the executionResult SUCCEEDED and the number of children passed as
\* workItemsCount, and it is written unless the store is not configured or
\* put_item fails; for the other outcomes nothing is sent to the store; in every
\* case, the write done, failed or skipped, the call returns the work item id,
\* the outcome as given and the response message.
C29_SavedIffDecomposed ==
    fin_out # None =>
        LET in == fin_in[1]
            out == fin_out[1]
        IN  /\ (out.save_calls = 1) = (in.outcome = "decomposed")
            /\ out.save_calls \in {0, 1}
            /\ in.outcome # "decomposed" => (out.put_items = <<>> /\ out.stored = <<>>)
            /\ in.outcome = "decomposed" =>
                  /\ (Len(out.put_items) = 1) = (in.table # "unset")
                  /\ (Len(out.stored) = 1) = (in.table = "writable")
                  /\ \A k \in 1..Len(out.put_items) :
                        /\ out.put_items[k].executionId = in.session_id
                        /\ out.put_items[k].executionResult = "SUCCEEDED"
                        /\ out.put_items[k].workItemsCount = ChildrenPassed
                  /\ out.stored \in {<<>>, out.put_items}
            /\ out.returned.workItemId = (IF in.work_item.workItemId = NoKey THEN "0"
                                           ELSE in.work_item.workItemId)
            /\ out.returned.outcome = in.outcome
            /\ out.returned.response.template = (IF in.outcome = "other" THEN ""
                                                  ELSE in.outcome)

\* a decomposition into two children whose put_item fails
C29_Witness ==
    /\ fin_out # None
    /\ fin_in[1].outcome = "decomposed"
    /\ fin_in[1].table = "failing"
    /\ fin_in[1].session_id = "session-2"
    /\ ChildrenPassed = 2
    /\ Len(fin_out[1].put_items) = 1
    /\ fin_out[1].put_items[1].workItemsCount = 2
    /\ fin_out[1].stored = <<>>
    /\ fin_out[1].returned.outcome = "decomposed"

=============================================================================
